---------------------------- MODULE Spec2Model ----------------------------
(***************************************************************************)
(* Model of the resilient client wrapper (waitForConnection, withRetry,    *)
(* checkConnection) and of the storage access functions (buildStoragePath, *)
(* uploadFile, downloadFile, listFiles, deleteFile) of src/lib/supabase.ts,*)
(* of readEnvVariable of the same file, of the useModelFiles hook and of   *)
(* the effect of AuthProvider (src/contexts/AuthContext.tsx).              *)
(*                                                                         *)
(* The program runs on one event loop.  Two tasks (Procs) issue calls; an  *)
(* action is the code that runs between two suspension points (await).     *)
(* Strings that the code inspects character by character are sequences of  *)
(* characters; error messages are sequences of words, and                  *)
(* String.prototype.includes is the contiguous-subsequence test on them.   *)
(***************************************************************************)
EXTENDS Naturals, Integers, Sequences, FiniteSets, TLC

VARIABLES isConnected, proc, hook, auth, env

vars == <<isConnected, proc, hook, auth, env>>

\* the state of the React layer and of the environment resolver
ui == <<hook, auth, env>>

\* the tasks of the event loop
Procs == {"t1", "t2"}
\* the task of the specification in which calls follow one another
Main == {"t1"}

-----------------------------------------------------------------------------
(* Bounds of the model *)

\* largest maxRetries argument of a direct withRetry call
MaxRetriesArg == 3
\* longest userId / modelId / filename given to buildStoragePath on its own
MaxPathLen == 2
\* auth-state events delivered to one subscription
MaxEvents == 2

-----------------------------------------------------------------------------
(* Program constants *)

WaitTimeoutDefault == 5000
ProbeInterval == 1000
MaxRetriesDefault == 5
BaseDelayDefault == 1000
MaxDelay == 15000
MaxFileSizeMB == 500
MAX_FILE_SIZE == MaxFileSizeMB * 1024 * 1024

-----------------------------------------------------------------------------
(* Strings as sequences of characters *)

Whitespace == {" "}
Chars == {"a", " ", "/"}

RECURSIVE trimStart(_)
trimStart(s) ==
  IF s # <<>> /\ Head(s) \in Whitespace THEN trimStart(Tail(s)) ELSE s

RECURSIVE trimEnd(_)
trimEnd(s) ==
  IF s # <<>> /\ s[Len(s)] \in Whitespace
  THEN trimEnd(SubSeq(s, 1, Len(s) - 1))
  ELSE s

\* String.prototype.trim
trim(s) == trimEnd(trimStart(s))

\* s.replace(/\/+/g, '/'): every maximal run of slashes becomes one slash
RECURSIVE collapseSlashes(_)
collapseSlashes(s) ==
  IF Len(s) < 2 THEN s
  ELSE IF s[1] = "/" /\ s[2] = "/" THEN collapseSlashes(Tail(s))
  ELSE <<s[1]>> \o collapseSlashes(Tail(s))

ModelsSegment == <<"/", "m", "o", "d", "e", "l", "s", "/">>

\* the prefix of listFiles, l. 259
listPrefix(userId, modelId) == userId \o ModelsSegment \o modelId \o <<"/">>

\* s.replace(pattern, '') with a string pattern: the first occurrence of
\* pattern is taken out of s
replaceFirst(s, pattern) ==
  LET at == { i \in 1..(Len(s) - Len(pattern) + 1) :
                SubSeq(s, i, i + Len(pattern) - 1) = pattern }
      first == CHOOSE i \in at : \A j \in at : i <= j
  IN IF at = {} THEN s
     ELSE SubSeq(s, 1, first - 1) \o SubSeq(s, first + Len(pattern), Len(s))

\* message.includes(signature) on messages made of words
includes(message, signature) ==
  \E i \in 0..(Len(message) - Len(signature)) :
    SubSeq(message, i + 1, i + Len(signature)) = signature

-----------------------------------------------------------------------------
(* Thrown values.  isError is `err instanceof Error`. *)

MkError(msg) == [isError |-> TRUE, message |-> msg]

InvalidPathError == MkError(<<"Invalid", "path", "components">>)
FileSizeError ==
  MkError(<<"File", "size", "exceeds", "maximum", "limit", "of", "500MB">>)
NoDataError == MkError(<<"Operation", "returned", "no", "data">>)
RequestTimeoutError == MkError(<<"Request", "timeout">>)
RetriesExhaustedError ==
  MkError(<<"Operation", "failed", "after", "multiple", "retries">>)

FailedToFetch == MkError(<<"TypeError:", "Failed", "to", "fetch">>)
NetworkErr == MkError(<<"NetworkError", "when", "attempting", "to", "fetch">>)
NetworkTimeout == MkError(<<"network", "timeout", "at", "host">>)
ConnRefused == MkError(<<"Connection", "refused">>)
PermissionDenied == MkError(<<"permission", "denied">>)
\* a thrown value that is not an Error instance, with a transient message
PlainFetchObject == [isError |-> FALSE, message |-> <<"Failed", "to", "fetch">>]
\* the error field of a storage response
BackendError == MkError(<<"Object", "not", "found">>)
\* what text() of a downloaded Blob may reject with
ReadFailedError == MkError(<<"read", "failed">>)

\* the five transient signatures
Signatures ==
  { <<"Failed", "to", "fetch">>,
    <<"NetworkError">>,
    <<"network", "timeout">>,
    <<"Request", "timeout">>,
    <<"Connection", "refused">> }

\* variant of isRetryableError: every failure is retried
IsRetryableAlways(err) == TRUE

\* l. 133-139
isRetryableError(err) ==
  err.isError /\ \E sig \in Signatures : includes(err.message, sig)

-----------------------------------------------------------------------------
(* JavaScript values an operation can resolve with *)

Undefined == [t |-> "undefined"]
Num(n) == [t |-> "number", n |-> n]
Str(s) == [t |-> "string", s |-> s]
Bool(b) == [t |-> "boolean", b |-> b]
\* { data, error } of the storage client; error is <<>> for null
Response(data, error) == [t |-> "response", data |-> data, error |-> error]

\* an array
Arr(items) == [t |-> "array", items |-> items]
\* the data of an upload response
PathObject(path) == [t |-> "object", path |-> path]
\* the data of a download response: a Blob, with what its text() will do
Blob(text) == [t |-> "blob", text |-> text]

\* ToBoolean
truthy(v) ==
  CASE v.t = "undefined" -> FALSE
    [] v.t = "number" -> v.n # 0
    [] v.t = "string" -> v.s # <<>>
    [] v.t = "boolean" -> v.b
    [] OTHER -> TRUE

-----------------------------------------------------------------------------
(* Outcomes of one invocation of the operation, of one probe *)

Resolve(v) == [k |-> "resolve", v |-> v]
Reject(e) == [k |-> "reject", e |-> e]
\* the operation does not settle before the 10 second timer fires
Pending == [k |-> "pending"]
NoOutcome == [k |-> "none"]

\* what a caller-supplied operation may do
AnyOutcomes ==
  { Resolve(Undefined), Resolve(Num(0)), Resolve(Num(1)), Resolve(Str(<<"a">>)),
    Reject(FailedToFetch), Reject(NetworkErr), Reject(NetworkTimeout),
    Reject(ConnRefused), Reject(PermissionDenied), Reject(PlainFetchObject),
    Pending }

ProbeOutcomes == {"ok", "error", "throws"}
\* time a probe takes, in ms
ProbeLatencies == {2000, 4000}

-----------------------------------------------------------------------------
(* Results of a call *)

NoResult == [kind |-> "none"]
Returned(v) == [kind |-> "return", val |-> v]
Thrown(e) == [kind |-> "throw", err |-> e]

-----------------------------------------------------------------------------
(* Arguments *)

NoArgs == [userId |-> <<>>, modelId |-> <<>>, filename |-> <<>>, size |-> 0]

\* userId, modelId and filename arguments of the storage calls
ArgPool == { <<>>, <<" ">>, <<" ", "a">> }

\* size in bytes of the Blob made of the content argument
ContentSizes == {MAX_FILE_SIZE, MAX_FILE_SIZE + 1}

\* timeout arguments of a direct waitForConnection call
TimeoutPool == {0, 2000, WaitTimeoutDefault}

\* baseDelay arguments of a direct withRetry call; with the larger one the
\* second backoff reaches the cap
BaseDelayPool == {BaseDelayDefault, 8 * BaseDelayDefault}

Min(a, b) == IF a <= b THEN a ELSE b

StorageFns == {"uploadFile", "downloadFile", "listFiles", "deleteFile"}

-----------------------------------------------------------------------------
(* buildStoragePath: [ok, path]; ok = FALSE is the throw of the validation *)
(* error                                                                   *)

\* variant of buildStoragePath: the components are not trimmed
buildStoragePathNoTrim(userId, modelId, filename) ==
  IF userId = <<>> \/ modelId = <<>> \/ filename = <<>>
  THEN [ok |-> FALSE, path |-> <<>>]
  ELSE [ok |-> TRUE,
        path |-> collapseSlashes(userId \o ModelsSegment \o modelId
                                   \o <<"/">> \o filename)]

\* variant of buildStoragePath: no slash between modelId and filename
buildStoragePathNoSeparator(userId, modelId, filename) ==
  LET cleanUserId == trim(userId)
      cleanModelId == trim(modelId)
      cleanFilename == trim(filename)
  IN IF cleanUserId = <<>> \/ cleanModelId = <<>> \/ cleanFilename = <<>>
     THEN [ok |-> FALSE, path |-> <<>>]
     ELSE [ok |-> TRUE,
           path |-> collapseSlashes(cleanUserId \o ModelsSegment \o cleanModelId
                                      \o cleanFilename)]

\* l. 190-202
buildStoragePath(userId, modelId, filename) ==
  LET cleanUserId == trim(userId)
      cleanModelId == trim(modelId)
      cleanFilename == trim(filename)
  IN IF cleanUserId = <<>> \/ cleanModelId = <<>> \/ cleanFilename = <<>>
     THEN [ok |-> FALSE, path |-> <<>>]
     ELSE [ok |-> TRUE,
           path |-> collapseSlashes(cleanUserId \o ModelsSegment \o cleanModelId
                                      \o <<"/">> \o cleanFilename)]

-----------------------------------------------------------------------------
(* One task.  fn is the exported function it called last; pc is where the  *)
(* call is suspended:                                                      *)
(*   idle       no call yet                                                *)
(*   probe      waitForConnection awaits its readiness probe (l. 87)       *)
(*   sleep      waitForConnection awaits sleep(1000) (l. 100)              *)
(*   operation  withRetry awaits the race of operation and timer (l. 126)  *)
(*   backoff    withRetry awaits sleep(delay) (l. 153)                     *)
(*   check      checkConnection awaits its query (l. 170)                  *)
(*   text       downloadFile awaits data.text() (l. 252)                   *)
(*   done       the call has returned or thrown (result)                   *)
(* opCalls, probes and sleeps count what the call has issued so far; last  *)
(* is the outcome of the latest invocation of the operation and uniform    *)
(* says that every invocation so far had that same outcome; probeOk says   *)
(* that a probe of the call resolved without error; flagAtStart is         *)
(* isConnected as the call found it; elapsed is Date.now() - start; delay  *)
(* is the argument of the latest sleep(delay) of withRetry; abandoned      *)
(* counts the invocations of the operation that were still pending when    *)
(* their 10 s timer ended the attempt.                                     *)
(***************************************************************************)

IdleProc ==
  [ fn |-> "none", pc |-> "idle",
    maxRetries |-> 0, timeout |-> 0, args |-> NoArgs, flagAtStart |-> FALSE,
    attempt |-> 0, elapsed |-> 0, opCalls |-> 0, probes |-> 0, sleeps |-> 0,
    probeOk |-> FALSE,
    last |-> NoOutcome, uniform |-> TRUE, wfc |-> "none", result |-> NoResult,
    baseDelay |-> 0, delay |-> 0, abandoned |-> 0 ]

\* the task's record when it enters exported function f
Enter(r, f, connected) ==
  [ IdleProc EXCEPT !.fn = f, !.pc = "run", !.flagAtStart = connected ]

Done(r, res) == [ r EXCEPT !.pc = "done", !.result = res ]

-----------------------------------------------------------------------------
(* withRetry, lines 109-163 *)

\* variant of retryLoop: one attempt too many
retryLoopOffByOne(r, a) ==
  IF a <= r.maxRetries + 1
  THEN [ r EXCEPT !.attempt = a, !.opCalls = @ + 1, !.pc = "operation" ]
  ELSE Done(r, Thrown(RetriesExhaustedError))

\* the for statement at attempt number a: the operation is invoked (l. 126),
\* or the loop is over (l. 162)
retryLoop(r, a) ==
  IF a <= r.maxRetries
  THEN [ r EXCEPT !.attempt = a, !.opCalls = @ + 1, !.pc = "operation" ]
  ELSE Done(r, Thrown(RetriesExhaustedError))

\* data.map(file => file.name.replace(prefix, '')).filter(Boolean), l. 273
RECURSIVE listedFiles(_, _)
listedFiles(names, prefix) ==
  IF names = <<>> THEN <<>>
  ELSE LET name == replaceFirst(Head(names), prefix)
       IN (IF name = <<>> THEN <<>> ELSE <<name>>)
            \o listedFiles(Tail(names), prefix)

\* the data of a response without error, l. 234, 252, 273, 289: uploadFile
\* returns data.path, downloadFile awaits data.text(), listFiles returns
\* the names without the prefix, deleteFile returns nothing
withData(r, data) ==
  CASE r.fn = "uploadFile" -> Done(r, Returned(Str(data.path)))
    [] r.fn = "downloadFile" -> [ r EXCEPT !.pc = "text" ]
    [] r.fn = "listFiles" ->
         Done(r, Returned(Arr(listedFiles(
                   data.items, listPrefix(r.args.userId, r.args.modelId)))))
    [] OTHER -> Done(r, Returned(Undefined))

\* variant of afterWithRetry: the error field is not looked at
afterWithRetryIgnoresError(r, v) ==
  IF r.fn = "withRetry" THEN Done(r, Returned(v))
  ELSE IF v.error # <<>> THEN Done(r, Returned(Undefined))
  ELSE withData(r, v.data)

\* what the exported storage function does with the value withRetry returned
\* (l. 233-234, 251-252, 272-273, 289)
afterWithRetry(r, v) ==
  IF r.fn = "withRetry" THEN Done(r, Returned(v))
  ELSE IF v.error # <<>> THEN Done(r, Thrown(v.error[1]))
  ELSE withData(r, v.data)

\* data.text() of downloadFile has settled with outcome t, l. 252
textSettled(r, t) ==
  IF t.k = "resolve" THEN Done(r, Returned(t.v)) ELSE Done(r, Thrown(t.e))

\* variant of catchBlock: the last attempt backs off too, l. 146 left out
catchBlockRetryLast(r, err) ==
  IF isRetryableError(err)
  THEN [ r EXCEPT !.pc = "backoff", !.sleeps = @ + 1 ]
  ELSE Done(r, Thrown(err))

\* the catch block, l. 131-158
catchBlock(r, err) ==
  IF isRetryableError(err)
  THEN IF r.attempt = r.maxRetries
       THEN Done(r, Thrown(err))
       ELSE [ r EXCEPT !.pc = "backoff", !.sleeps = @ + 1 ]
  ELSE Done(r, Thrown(err))

\* variant of settle: a falsy result fails with a transient error
settleRetryNoData(r, o) ==
  CASE o.k = "resolve" ->
         IF truthy(o.v) THEN afterWithRetry(r, o.v)
         ELSE catchBlock(r, FailedToFetch)
    [] o.k = "reject" -> catchBlock(r, o.e)
    [] OTHER -> catchBlock(r, RequestTimeoutError)

\* variant of settle: the timeout of an attempt ends the call
settleTimeoutFatal(r, o) ==
  CASE o.k = "resolve" ->
         IF truthy(o.v) THEN afterWithRetry(r, o.v)
         ELSE catchBlock(r, NoDataError)
    [] o.k = "reject" -> catchBlock(r, o.e)
    [] OTHER -> Done(r, Thrown(RequestTimeoutError))

\* the race has settled with outcome o, l. 126-130
settle(r, o) ==
  CASE o.k = "resolve" ->
         IF truthy(o.v) THEN afterWithRetry(r, o.v)
         ELSE catchBlock(r, NoDataError)
    [] o.k = "reject" -> catchBlock(r, o.e)
    [] OTHER -> catchBlock(r, RequestTimeoutError)

\* variant of backoffDelay: no cap
backoffDelayNoCap(baseDelay, attempt, jitter) ==
  baseDelay * 2^(attempt - 1) + jitter

\* the delay of the sleep after failed attempt number attempt, l. 149-152;
\* jitter is Math.random() * baseDelay
backoffDelay(baseDelay, attempt, jitter) ==
  Min(baseDelay * 2^(attempt - 1) + jitter, MaxDelay)

\* the values of Math.random() * baseDelay the model draws, in whole
\* milliseconds: the ends of [0, baseDelay), 0 for the low one and 1 for the
\* high one
BothEnds == {0, 1}
Jitters(baseDelay, ends) == { e * (baseDelay - 1) : e \in ends }

\* l. 147-153: the catch block has decided to back off and computes the delay
withDelay(r, jitter) ==
  IF r.pc = "backoff"
  THEN [ r EXCEPT !.delay = backoffDelay(r.baseDelay, r.attempt, jitter) ]
  ELSE r

-----------------------------------------------------------------------------
(* waitForConnection, lines 82-104 *)

\* variant of wfcReturned: withRetry gives up when the wait returned false
wfcReturnedGivesUp(r, b) ==
  IF r.fn = "waitForConnection"
  THEN Done(r, Returned(Bool(b)))
  ELSE IF b
  THEN retryLoop([ r EXCEPT !.wfc = "true", !.elapsed = 0 ], 1)
  ELSE Done([ r EXCEPT !.wfc = "false" ], Thrown(RetriesExhaustedError))

\* waitForConnection has returned b: to its caller, or into withRetry l. 119
wfcReturned(r, b) ==
  IF r.fn = "waitForConnection"
  THEN Done(r, Returned(Bool(b)))
  ELSE retryLoop([ r EXCEPT !.wfc = IF b THEN "true" ELSE "false",
                            !.elapsed = 0 ], 1)

\* the while condition, l. 85, and the probe it issues, l. 87
wfcLoop(r) ==
  IF r.elapsed < r.timeout
  THEN [ r EXCEPT !.pc = "probe", !.probes = @ + 1 ]
  ELSE wfcReturned(r, FALSE)

\* variant of probeSettled: a throwing probe is not caught
probeSettledRethrows(r, outcome, latency) ==
  IF outcome = "ok" THEN wfcReturned(r, TRUE)
  ELSE IF outcome = "throws" THEN Done(r, Thrown(FailedToFetch))
  ELSE [ r EXCEPT !.pc = "sleep", !.elapsed = @ + latency ]

\* the probe has settled, l. 87-99
probeSettled(r, outcome, latency) ==
  IF outcome = "ok"
  THEN wfcReturned(r, TRUE)
  ELSE [ r EXCEPT !.pc = "sleep", !.elapsed = @ + latency ]

\* variant of flagAfterProbe: the flag follows the latest probe
flagAfterProbeFollows(connected, outcome) == outcome = "ok"

\* isConnected after a probe has settled, l. 92-93
flagAfterProbe(connected, outcome) == connected \/ outcome = "ok"

\* variant of withRetryEntry: the connection is not awaited
withRetryEntryNoWait(r, connected) == retryLoop(r, 1)

\* l. 114-117
withRetryEntry(r, connected) ==
  IF ~connected
  THEN wfcLoop([ r EXCEPT !.timeout = WaitTimeoutDefault ])
  ELSE retryLoop(r, 1)

-----------------------------------------------------------------------------
(* What a call of the storage client may do *)

\* text() of the Blob resolves, rejects or does not settle
TextOutcomes == { Resolve(Str(<<"d">>)), Reject(ReadFailedError), Pending }

\* the names of a listing under the prefix: a file with the prefix in its
\* name, an empty name, a bare name, the prefix itself
ListedNames(prefix) == << prefix \o <<"a">>, <<>>, <<"b">>, prefix >>

\* the responses without error that the storage call of r may resolve with,
\* for a Blob with the given outcomes of text()
StorageData(r, texts) ==
  CASE r.fn = "uploadFile" ->
         { PathObject(buildStoragePath(r.args.userId, r.args.modelId,
                                       r.args.filename).path) }
    [] r.fn = "downloadFile" -> { Blob(t) : t \in texts }
    [] r.fn = "listFiles" ->
         { Arr(ListedNames(listPrefix(r.args.userId, r.args.modelId))) }
    [] OTHER -> { Arr(<<>>) }

StorageOutcomes(r, texts) ==
  { Resolve(Response(d, <<>>)) : d \in StorageData(r, texts) }
    \cup { Resolve(Response(Undefined, <<BackendError>>)),
           Resolve(Response(Undefined, <<FailedToFetch>>)),
           Reject(FailedToFetch),
           Pending }

-----------------------------------------------------------------------------
(* The storage functions up to their call of withRetry, l. 204-290 *)

\* variant of validated: no size check
validatedNoSizeCheck(r, connected) == withRetryEntry(r, connected)

\* l. 217-223
validated(r, connected) ==
  IF r.fn = "uploadFile" /\ r.args.size > MAX_FILE_SIZE
  THEN Done(r, Thrown(FileSizeError))
  ELSE withRetryEntry(r, connected)

\* l. 210, 242, 281; listFiles builds its prefix without validation, l. 259
storageEntry(r, connected) ==
  IF r.fn # "listFiles"
     /\ ~buildStoragePath(r.args.userId, r.args.modelId, r.args.filename).ok
  THEN Done(r, Thrown(InvalidPathError))
  ELSE validated(r, connected)

-----------------------------------------------------------------------------
(* The React layer and the environment resolver while the specification   *)
(* at hand does not run them                                               *)

NoHook == [mounted |-> FALSE]
NoAuth == [mounted |-> FALSE]
NoEnv == [pc |-> "none"]

-----------------------------------------------------------------------------
(* Actions *)

Init ==
  /\ isConnected = FALSE
  /\ proc = [p \in Procs |-> IdleProc]
  /\ hook = NoHook
  /\ auth = NoAuth
  /\ env = NoEnv

\* a task issues its next call when the one before has returned or thrown
CanCall(p) == proc[p].pc \in {"idle", "done"}

\* withRetry(operation, maxRetries, baseDelay) called directly
CallWithRetry(p, maxRetries, baseDelay) ==
  /\ CanCall(p)
  /\ proc' = [proc EXCEPT ![p] =
       withRetryEntry([Enter(proc[p], "withRetry", isConnected)
                         EXCEPT !.maxRetries = maxRetries,
                                !.baseDelay = baseDelay], isConnected)]
  /\ UNCHANGED isConnected

\* waitForConnection(timeout) called directly
CallWaitForConnection(p, timeout) ==
  /\ CanCall(p)
  /\ proc' = [proc EXCEPT ![p] =
       wfcLoop([Enter(proc[p], "waitForConnection", isConnected)
                  EXCEPT !.timeout = timeout])]
  /\ UNCHANGED isConnected

\* checkConnection(), l. 168-175
CallCheckConnection(p) ==
  /\ CanCall(p)
  /\ proc' = [proc EXCEPT ![p] =
       [Enter(proc[p], "checkConnection", isConnected) EXCEPT !.pc = "check"]]
  /\ UNCHANGED isConnected

\* uploadFile / downloadFile / listFiles / deleteFile
CallStorage(p, f, userId, modelId, filename, size) ==
  /\ CanCall(p)
  /\ proc' = [proc EXCEPT ![p] =
       storageEntry([Enter(proc[p], f, isConnected)
                       EXCEPT !.maxRetries = MaxRetriesDefault,
                              !.baseDelay = BaseDelayDefault,
                              !.args = [userId |-> userId, modelId |-> modelId,
                                        filename |-> filename, size |-> size]],
                    isConnected)]
  /\ UNCHANGED isConnected

\* the readiness probe of waitForConnection settles, l. 87-100
ProbeSettles(p, outcome, latency) ==
  /\ proc[p].pc = "probe"
  /\ isConnected' = flagAfterProbe(isConnected, outcome)
  /\ proc' = [proc EXCEPT ![p] =
       probeSettled([proc[p] EXCEPT !.probeOk = (outcome = "ok")],
                    outcome, latency)]

\* sleep(1000) of waitForConnection is over, l. 100 and 85
SleepEnds(p) ==
  /\ proc[p].pc = "sleep"
  /\ proc' = [proc EXCEPT ![p] =
       wfcLoop([proc[p] EXCEPT !.elapsed = @ + ProbeInterval])]
  /\ UNCHANGED isConnected

\* the race of the operation and the 10 s timer settles, l. 126, and the
\* catch block draws its jitter, l. 150
OperationSettles(p, o, jitter) ==
  /\ proc[p].pc = "operation"
  /\ proc' = [proc EXCEPT ![p] =
       withDelay(
         settle([proc[p] EXCEPT
                   !.last = o,
                   !.uniform = (proc[p].last = NoOutcome
                                \/ (proc[p].uniform /\ proc[p].last = o)),
                   !.abandoned = IF o = Pending THEN @ + 1 ELSE @], o),
         jitter)]
  /\ UNCHANGED isConnected

\* the backoff sleep is over, l. 153 and 119
BackoffEnds(p) ==
  /\ proc[p].pc = "backoff"
  /\ proc' = [proc EXCEPT ![p] = retryLoop(proc[p], proc[p].attempt + 1)]
  /\ UNCHANGED isConnected

\* text() of the Blob that downloadFile got settles, l. 252; a text() that
\* does not settle leaves the call there
TextSettles(p) ==
  /\ proc[p].pc = "text"
  /\ proc[p].last.v.data.text # Pending
  /\ proc' = [proc EXCEPT ![p] =
       textSettled(proc[p], proc[p].last.v.data.text)]
  /\ UNCHANGED isConnected

\* the query of checkConnection settles, l. 170-181
CheckSettles(p, outcome) ==
  /\ proc[p].pc = "check"
  /\ proc' = [proc EXCEPT ![p] = Done(proc[p], Returned(Bool(outcome = "ok")))]
  /\ UNCHANGED isConnected

\* the calls of the storage functions with arguments of the given pools
StorageCalls(fns, argPool, sizes) ==
  { c \in [f : fns, userId : argPool, modelId : argPool,
           filename : argPool \cup {<<>>}, size : sizes \cup {0}] :
      /\ c.f = "uploadFile" => c.size \in sizes /\ c.filename \in argPool
      /\ c.f \in {"downloadFile", "deleteFile"} =>
           c.size = 0 /\ c.filename \in argPool
      /\ c.f = "listFiles" => c.size = 0 /\ c.filename = <<>> }

\* the steps of the tasks P, with inputs drawn from the given sets
Step(P, retries, baseDelays, ends, timeouts, storageCalls, anyOutcomes, texts) ==
  \/ \E p \in P, m \in retries, b \in baseDelays : CallWithRetry(p, m, b)
  \/ \E p \in P, t \in timeouts : CallWaitForConnection(p, t)
  \/ \E p \in P : CallCheckConnection(p)
  \/ \E p \in P, c \in storageCalls :
       CallStorage(p, c.f, c.userId, c.modelId, c.filename, c.size)
  \/ \E p \in P, o \in ProbeOutcomes, l \in ProbeLatencies :
       ProbeSettles(p, o, l)
  \/ \E p \in P : SleepEnds(p)
  \/ \E p \in P :
       \E o \in (IF proc[p].fn = "withRetry" THEN anyOutcomes
                 ELSE StorageOutcomes(proc[p], texts)),
          j \in Jitters(proc[p].baseDelay, ends) :
         OperationSettles(p, o, j)
  \/ \E p \in P : BackoffEnds(p)
  \/ \E p \in P : TextSettles(p)
  \/ \E p \in P, o \in ProbeOutcomes : CheckSettles(p, o)

\* one task, calls one after the other, all inputs
Next ==
  /\ Step(Main, 0..MaxRetriesArg, BaseDelayPool, BothEnds, TimeoutPool,
          StorageCalls(StorageFns, ArgPool, ContentSizes), AnyOutcomes,
          TextOutcomes)
  /\ UNCHANGED ui

Spec == Init /\ [][Next]_vars

\* The awaits of the retry loop are ended by timers: the race of l. 126 by
\* the 10 s timer of l. 122-124 at the latest, the backoff by sleep(delay).
\* The event loop runs a timer that is due, so both steps are taken once
\* they are enabled.  The probe of waitForConnection has no timer of its own.
Fairness ==
  \A p \in Main :
    /\ WF_vars(/\ \E o \in (IF proc[p].fn = "withRetry" THEN AnyOutcomes
                               ELSE StorageOutcomes(proc[p], TextOutcomes)),
                       j \in Jitters(proc[p].baseDelay, BothEnds) :
                     OperationSettles(p, o, j)
               /\ UNCHANGED ui)
    /\ WF_vars(BackoffEnds(p) /\ UNCHANGED ui)

SpecFair == Spec /\ Fairness

\* two tasks whose calls overlap, with fewer inputs
ConcOutcomes ==
  { Resolve(Num(1)), Reject(FailedToFetch), Reject(PermissionDenied) }

NextConc ==
  /\ Step(Procs, {MaxRetriesArg - 1}, {BaseDelayDefault}, {0},
          {WaitTimeoutDefault},
          StorageCalls({"downloadFile"}, {<<" ", "a">>}, {}), ConcOutcomes,
          {Resolve(Str(<<"d">>))})
  /\ UNCHANGED ui

SpecConc == Init /\ [][NextConc]_vars

-----------------------------------------------------------------------------
(* buildStoragePath on its own: the task holds the three arguments, every  *)
(* string over Chars of at most MaxPathLen characters, and applies it      *)

PathStrs == UNION { [1..n -> Chars] : n \in 0..MaxPathLen }

PathArgs(userId, modelId, filename) ==
  [userId |-> userId, modelId |-> modelId, filename |-> filename, size |-> 0]

InitPath ==
  /\ isConnected = FALSE
  /\ \E u \in PathStrs, m \in PathStrs, f \in PathStrs :
       proc = [p \in Procs |->
                 IF p \in Main
                 THEN [IdleProc EXCEPT !.fn = "buildStoragePath",
                                       !.args = PathArgs(u, m, f)]
                 ELSE IdleProc]
  /\ hook = NoHook
  /\ auth = NoAuth
  /\ env = NoEnv

\* l. 190-202
BuildPath(p) ==
  /\ proc[p].fn = "buildStoragePath"
  /\ proc[p].pc = "idle"
  /\ LET b == buildStoragePath(proc[p].args.userId, proc[p].args.modelId,
                               proc[p].args.filename)
     IN proc' = [proc EXCEPT ![p] =
          Done(proc[p], IF b.ok THEN Returned(Str(b.path))
                        ELSE Thrown(InvalidPathError))]
  /\ UNCHANGED isConnected

NextPath == (\E p \in Main : BuildPath(p)) /\ UNCHANGED ui

SpecPath == InitPath /\ [][NextPath]_vars

-----------------------------------------------------------------------------
(* readEnvVariable, l. 9-39, on its own.  env holds the two sources,        *)
(* process.env and import.meta.env, as functions from variable names to    *)
(* values (Undefined where the name is not set), the arguments of the call *)
(* and its result.                                                         *)

\* the calls the module makes at load time, l. 42-47
EnvCalls ==
  { [systemVar |-> "SUPABASE_URL", viteVar |-> "VITE_SUPABASE_URL"],
    [systemVar |-> "SUPABASE_ANON_KEY", viteVar |-> "VITE_SUPABASE_ANON_KEY"],
    [systemVar |-> "GITHUB_CLIENT_ID", viteVar |-> "VITE_GITHUB_CLIENT_ID"],
    [systemVar |-> "GITHUB_CLIENT_SECRET",
     viteVar |-> "VITE_GITHUB_CLIENT_SECRET"] }

\* what a source may hold under a name: nothing, the empty string, a value
EnvValues == { Undefined, Str(<<>>), Str(<<"a">>), Str(<<"b">>) }

\* l. 30 and 34
MissingVariableError(systemVar, viteVar) ==
  MkError(<<"Missing", "required", "environment", "variable:", systemVar,
            "or", viteVar, "Please", "set", "it", "in", "your", "system",
            "environment", "or", "in", "your", ".env", "file.">>)

\* variant of readEnvVariable: a source counts as soon as the name is set
readEnvVariableDefinedOnly(processEnv, metaEnv, systemVar, viteVar, isRequired) ==
  IF processEnv[systemVar] # Undefined THEN Returned(processEnv[systemVar])
  ELSE IF metaEnv[viteVar] # Undefined THEN Returned(metaEnv[viteVar])
  ELSE IF isRequired THEN Thrown(MissingVariableError(systemVar, viteVar))
  ELSE Returned(Undefined)

\* l. 9-39
readEnvVariable(processEnv, metaEnv, systemVar, viteVar, isRequired) ==
  IF truthy(processEnv[systemVar]) THEN Returned(processEnv[systemVar])
  ELSE IF truthy(metaEnv[viteVar]) THEN Returned(metaEnv[viteVar])
  ELSE IF isRequired THEN Thrown(MissingVariableError(systemVar, viteVar))
  ELSE Returned(Undefined)

InitEnv ==
  /\ isConnected = FALSE
  /\ proc = [p \in Procs |-> IdleProc]
  /\ hook = NoHook
  /\ auth = NoAuth
  /\ \E c \in EnvCalls, isRequired \in BOOLEAN :
     \E processEnv \in [{c.systemVar, c.viteVar} -> EnvValues],
        metaEnv \in [{c.systemVar, c.viteVar} -> EnvValues] :
       env = [pc |-> "idle", processEnv |-> processEnv, metaEnv |-> metaEnv,
              systemVar |-> c.systemVar, viteVar |-> c.viteVar,
              isRequired |-> isRequired, result |-> NoResult]

ReadEnv ==
  /\ env.pc = "idle"
  /\ env' = [env EXCEPT
       !.pc = "done",
       !.result = readEnvVariable(env.processEnv, env.metaEnv, env.systemVar,
                                  env.viteVar, env.isRequired)]
  /\ UNCHANGED <<isConnected, proc, hook, auth>>

NextEnv == ReadEnv

SpecEnv == InitEnv /\ [][NextEnv]_vars

-----------------------------------------------------------------------------
(* The effect of AuthProvider, AuthContext.tsx l. 21-62, and its sign      *)
(* functions, l. 64-112.  auth holds the three state cells of the          *)
(* component (user, loading, error; error is <<>> for null), the variable  *)
(* mounted of the effect's closure, where getInitialSession is suspended   *)
(* (session: "waiting" at l. 26, "getSession" at l. 29, "done"), whether   *)
(* the auth-state subscription is on, and the sign call in flight.         *)
(* events, unsubscribes and late count the auth-state events delivered,    *)
(* the unsubscribe calls and the callbacks that ran after the cleanup.     *)
(* A state cell holds what its setter was last called with.                *)

NoUser == "null"
\* getSession resolves with { data: { session }, error }: a session with a
\* user, no session, or an error; or it rejects
SessionOutcomes ==
  { Resolve(Response(Str(<<"u1">>), <<>>)),
    Resolve(Response(Str(<<"u2">>), <<>>)),
    Resolve(Response(Undefined, <<>>)),
    Resolve(Response(Undefined, <<BackendError>>)),
    Reject(FailedToFetch),
    Reject(PlainFetchObject) }

\* the session argument of the auth-state callback
EventSessions == {Str(<<"u1">>), Str(<<"u2">>), Undefined}

\* session?.user ?? null, l. 33 and 52
userOf(session) == IF session = Undefined THEN NoUser ELSE session.s[1]

FailedToGetSession == MkError(<<"Failed", "to", "get", "session">>)

\* err instanceof Error ? err : new Error('Failed to get session'), l. 39
asError(err) == IF err.isError THEN err ELSE FailedToGetSession

\* l. 17-19
AuthRendered ==
  [ user |-> NoUser, loading |-> TRUE, error |-> <<>>,
    effect |-> "none", mounted |-> FALSE, session |-> "idle",
    subscribed |-> FALSE, sign |-> "idle",
    events |-> 0, unsubscribes |-> 0, late |-> 0 ]

\* getSession has settled with outcome o, l. 29-45
sessionSettled(a, o) ==
  LET failed == o.k = "reject" \/ o.v.error # <<>>
      err == IF o.k = "reject" THEN o.e ELSE o.v.error[1]
  IN IF a.mounted
     THEN [ a EXCEPT !.session = "done",
                     !.user = IF failed THEN @ ELSE userOf(o.v.data),
                     !.error = IF failed THEN <<asError(err)>> ELSE <<>>,
                     !.loading = FALSE ]
     ELSE [ a EXCEPT !.session = "done" ]

\* variant of authStateChanged: no mounted guard
authStateChangedUnguarded(a, session) ==
  [ a EXCEPT !.user = userOf(session), !.loading = FALSE, !.error = <<>> ]

\* the auth-state callback, l. 50-56
authStateChanged(a, session) ==
  IF a.mounted
  THEN [ a EXCEPT !.user = userOf(session), !.loading = FALSE, !.error = <<>> ]
  ELSE a

InitAuth ==
  /\ isConnected = FALSE
  /\ proc = [p \in Procs |-> IdleProc]
  /\ hook = NoHook
  /\ env = NoEnv
  /\ auth = AuthRendered

\* the effect runs, l. 21-57: getInitialSession starts and suspends at
\* waitForConnection, the auth-state callback is subscribed
AuthEffect ==
  /\ auth.effect = "none"
  /\ auth' = [auth EXCEPT !.effect = "active", !.mounted = TRUE,
                          !.session = "waiting", !.subscribed = TRUE]

\* waitForConnection has returned (it never throws), l. 26 and 29
AuthConnectionAwaited ==
  /\ auth.session = "waiting"
  /\ auth' = [auth EXCEPT !.session = "getSession"]

\* a step of the effect that runs after the cleanup is counted
counted(a, b) ==
  IF a.effect = "torn" THEN [ b EXCEPT !.late = @ + 1 ] ELSE b

\* getSession settles, l. 29-45
SessionSettles(o) ==
  /\ auth.session = "getSession"
  /\ auth' = counted(auth, sessionSettled(auth, o))

\* the client delivers an auth-state event to the callback, l. 50-56; an
\* event already on its way may arrive after unsubscribe
AuthStateChange(session) ==
  /\ auth.effect # "none"
  /\ auth.events < MaxEvents
  /\ auth' = counted(auth, [authStateChanged(auth, session)
                              EXCEPT !.events = @ + 1])

\* the cleanup of the effect, l. 58-61
AuthCleanup ==
  /\ auth.effect = "active"
  /\ auth' = [auth EXCEPT !.effect = "torn", !.mounted = FALSE,
                          !.subscribed = FALSE, !.unsubscribes = @ + 1]

\* signIn / signUp / signOut up to their await, l. 64-66, 81-83, 100-102;
\* the functions are handed out by the mounted provider
SignCall(f) ==
  /\ auth.effect = "active"
  /\ auth.sign = "idle"
  /\ auth' = [auth EXCEPT !.sign = f, !.loading = TRUE]

\* the sign request settles, l. 71-78, 91-97, 104-110: without a mounted guard
SignSettles(ok) ==
  /\ auth.sign # "idle"
  /\ auth' = [auth EXCEPT !.sign = "idle",
                          !.error = IF ok THEN <<>> ELSE @,
                          !.loading = FALSE]

NextAuth ==
  /\ \/ AuthEffect
     \/ AuthConnectionAwaited
     \/ \E o \in SessionOutcomes : SessionSettles(o)
     \/ \E session \in EventSessions : AuthStateChange(session)
     \/ AuthCleanup
     \/ \E f \in {"signIn", "signUp", "signOut"} : SignCall(f)
     \/ \E ok \in BOOLEAN : SignSettles(ok)
  /\ UNCHANGED <<isConnected, proc, hook, env>>

SpecAuth == InitAuth /\ [][NextAuth]_vars

-----------------------------------------------------------------------------
(* The file tree.  A path is a string; buildFileTree (utils/repository,    *)
(* spec 4.4) splits it on "/", walks or creates a directory node for every *)
(* segment but the last and inserts or overwrites a file node at the last; *)
(* children are kept in insertion order and a name is unique among its     *)
(* siblings.  lastModified, a timestamp, is left out.                      *)

\* path.split('/')
RECURSIVE split(_)
split(path) ==
  IF \A i \in 1..Len(path) : path[i] # "/"
  THEN <<path>>
  ELSE LET i == CHOOSE k \in 1..Len(path) :
                  path[k] = "/" /\ \A j \in 1..(k - 1) : path[j] # "/"
       IN <<SubSeq(path, 1, i - 1)>> \o split(SubSeq(path, i + 1, Len(path)))

\* segments.slice(0, n).join('/')
RECURSIVE joinFirst(_, _)
joinFirst(segments, n) ==
  IF n = 1 THEN segments[1]
  ELSE joinFirst(segments, n - 1) \o <<"/">> \o segments[n]

FileNode(name, path, content) ==
  [ name |-> name, type |-> "file", path |-> path, content |-> Str(content),
    size |-> Len(content), children |-> <<>> ]

DirectoryNode(name, path) ==
  [ name |-> name, type |-> "directory", path |-> path, content |-> Undefined,
    size |-> 0, children |-> <<>> ]

\* the position of the child called name, 0 when there is none
indexOf(nodes, name) ==
  IF \E i \in 1..Len(nodes) : nodes[i].name = name
  THEN CHOOSE i \in 1..Len(nodes) : nodes[i].name = name
  ELSE 0

put(nodes, idx, node) ==
  IF idx = 0 THEN Append(nodes, node) ELSE [nodes EXCEPT ![idx] = node]

\* one record is merged into the children of a node, from segment depth on
RECURSIVE insertRecord(_, _, _, _)
insertRecord(nodes, segments, depth, record) ==
  LET name == segments[depth]
      idx == indexOf(nodes, name)
  IN IF depth = Len(segments)
     THEN put(nodes, idx, FileNode(name, record.path, record.content))
     ELSE LET dir == IF idx # 0 /\ nodes[idx].type = "directory"
                     THEN nodes[idx]
                     ELSE DirectoryNode(name, joinFirst(segments, depth))
          IN put(nodes, idx,
                 [dir EXCEPT !.children =
                    insertRecord(dir.children, segments, depth + 1, record)])

RECURSIVE mergeRecords(_, _, _)
mergeRecords(tree, records, i) ==
  IF i > Len(records) THEN tree
  ELSE mergeRecords(insertRecord(tree, split(records[i].path), 1, records[i]),
                    records, i + 1)

buildFileTree(records) == mergeRecords(<<>>, records, 1)

\* the flat records of the file nodes of a tree, at any depth
RECURSIVE filesOf(_)
filesOf(nodes) ==
  UNION { IF nodes[i].type = "file"
          THEN {[path |-> nodes[i].path, content |-> nodes[i].content.s]}
          ELSE filesOf(nodes[i].children) : i \in 1..Len(nodes) }

-----------------------------------------------------------------------------
(* useModelFiles, hooks file l. 7-142.  hook holds what the hook reads     *)
(* (user, modelId), its three state cells (files, loading, error; error is *)
(* <<>> for null), whether the effect of the latest render has still to    *)
(* run (effectDue), and one record per call in flight or over:             *)
(*   kind    load (the effect, l. 14-53), addFile, uploadFiles             *)
(*   pc      listing (l. 26), downloading (l. 29), uploading (l. 61),      *)
(*           reading (l. 99), awaitAll (l. 111), done                      *)
(*   items   one record per file of the call: path, content and st, which  *)
(*           is pending / ok / failed for a download, waiting / reading /  *)
(*           readFailed / uploading / uploaded / uploadFailed for an upload*)
(*   cursor  the file the loop of uploadFiles is at                        *)
(*   writes  the setFiles calls the call has made                          *)
(*   seen    files as the call found it                                    *)
(*   listed  listFiles of the load has resolved                            *)
(*   modelId the modelId of the render whose closure the call runs         *)
(* A state cell holds what its setter was last called with; an updater     *)
(* function given to setFiles is applied to the cell as it is then.        *)
(* uploadFile, downloadFile and listFiles are taken by their results.      *)

HookOps == {"o1", "o2"}
HookMain == {"o1"}

NoOp ==
  [ kind |-> "none", pc |-> "idle", items |-> <<>>, cursor |-> 0,
    writes |-> 0, seen |-> <<>>, listed |-> FALSE, modelId |-> <<>>,
    result |-> NoResult ]

\* l. 8-11
HookRendered(user, modelId) ==
  [ user |-> user, modelId |-> modelId,
    files |-> <<>>, loading |-> TRUE, error |-> <<>>,
    effectDue |-> TRUE,
    ops |-> [o \in HookOps |-> NoOp] ]

\* a render hands the hook its user and modelId, l. 7-8.  The effect is due
\* when one of its dependencies [modelId, user] (l. 53) is not the same
\* value as before: another modelId, another user, or the same user as a
\* new object (fresh); null is the same value as null
rendered(h, user, modelId, fresh) ==
  [ h EXCEPT !.user = user, !.modelId = modelId,
             !.effectDue = \/ @
                           \/ modelId # h.modelId
                           \/ user # h.user
                           \/ user # NoUser /\ fresh ]

NotAuthenticated == MkError(<<"Not", "authenticated">>)
FailedToLoadFiles == MkError(<<"Failed", "to", "load", "files">>)
FailedToCreateFile == MkError(<<"Failed", "to", "create", "file">>)
FailedToUploadFiles == MkError(<<"Failed", "to", "upload", "files">>)

\* err instanceof Error ? err : new Error(...), l. 46, 82, 127
asErrorOr(err, fallback) == IF err.isError THEN err ELSE fallback

Item(path, content, st) ==
  [ path |-> path, content |-> content, st |-> st, err |-> <<>> ]

finish(r, res) == [ r EXCEPT !.pc = "done", !.result = res ]

\* current.map(f => ({ path: f.path, content: f.content || '' })), l. 73-76
\* and 114-117: one record per node of the top level
topRecords(current) ==
  [ i \in 1..Len(current) |->
      [ path |-> current[i].path,
        content |-> IF truthy(current[i].content) THEN current[i].content.s
                    ELSE <<>> ] ]

recordOf(item) == [ path |-> item.path, content |-> item.content ]

(* the effect: loadFiles, l. 15-50 *)

\* variant of loadEntry: without user or modelId the load also ends loading
loadEntryEndsLoading(h, o) ==
  IF h.user = NoUser \/ h.modelId = <<>>
  THEN [ h EXCEPT !.files = <<>>, !.loading = FALSE,
                  !.ops[o] = finish([NoOp EXCEPT !.kind = "load", !.writes = 1,
                                                 !.seen = h.files,
                                                 !.modelId = h.modelId],
                                    Returned(Undefined)) ]
  ELSE [ h EXCEPT !.loading = TRUE, !.error = <<>>,
                  !.ops[o] = [NoOp EXCEPT !.kind = "load", !.pc = "listing",
                                          !.seen = h.files,
                                          !.modelId = h.modelId] ]

\* l. 16-26
loadEntry(h, o) ==
  IF h.user = NoUser \/ h.modelId = <<>>
  THEN [ h EXCEPT !.files = <<>>,
                  !.ops[o] = finish([NoOp EXCEPT !.kind = "load", !.writes = 1,
                                                 !.seen = h.files,
                                                 !.modelId = h.modelId],
                                    Returned(Undefined)) ]
  ELSE [ h EXCEPT !.loading = TRUE, !.error = <<>>,
                  !.ops[o] = [NoOp EXCEPT !.kind = "load", !.pc = "listing",
                                          !.seen = h.files,
                                          !.modelId = h.modelId] ]

\* the effect calls loadFiles, l. 14 and 52
effectRun(h, o) == [ loadEntry(h, o) EXCEPT !.effectDue = FALSE ]

Settled(item) == item.st \in {"ok", "failed"}

\* variant of loadWrite: the tree of a load whose modelId is no longer the
\* current one is dropped
loadWriteGuarded(h, o) ==
  IF h.ops[o].modelId # h.modelId
  THEN [ h EXCEPT !.loading = FALSE,
                  !.ops[o] = finish(@, Returned(Undefined)) ]
  ELSE [ h EXCEPT
           !.files = buildFileTree([ i \in 1..Len(h.ops[o].items) |->
                                       recordOf(h.ops[o].items[i]) ]),
           !.loading = FALSE,
           !.ops[o] = finish([@ EXCEPT !.writes = @ + 1],
                             Returned(Undefined)) ]

\* l. 42-43 and 48
loadWrite(h, o) ==
  [ h EXCEPT
      !.files = buildFileTree([ i \in 1..Len(h.ops[o].items) |->
                                  recordOf(h.ops[o].items[i]) ]),
      !.loading = FALSE,
      !.ops[o] = finish([@ EXCEPT !.writes = @ + 1], Returned(Undefined)) ]

\* variant of loadAwaitAll: the tree is rebuilt as each download settles
loadAwaitAllEach(h, o) ==
  IF \A i \in 1..Len(h.ops[o].items) : h.ops[o].items[i].st # "pending"
  THEN loadWrite(h, o)
  ELSE [ h EXCEPT
           !.files = buildFileTree(
                       LET got == SelectSeq(h.ops[o].items, Settled)
                       IN [ i \in 1..Len(got) |-> recordOf(got[i]) ]) ]

\* Promise.all of the downloads, l. 29: it resolves when none is pending
loadAwaitAll(h, o) ==
  IF \A i \in 1..Len(h.ops[o].items) : h.ops[o].items[i].st # "pending"
  THEN loadWrite(h, o)
  ELSE h

\* listFiles has settled, l. 26-30 and 44-49
listSettled(h, o, res) ==
  IF res.kind = "throw"
  THEN [ h EXCEPT !.error = <<asErrorOr(res.err, FailedToLoadFiles)>>,
                  !.loading = FALSE,
                  !.ops[o] = finish(@, Returned(Undefined)) ]
  ELSE loadAwaitAll(
         [ h EXCEPT !.ops[o].pc = "downloading",
                    !.ops[o].listed = TRUE,
                    !.ops[o].items =
                      [ i \in 1..Len(res.val) |->
                          Item(res.val[i], <<>>, "pending") ] ], o)

\* variant of downloadSettled: a failed download fails the load
downloadSettledAborts(h, o, i, res) ==
  IF res.kind = "return"
  THEN loadAwaitAll(
         [ h EXCEPT !.ops[o].items[i] =
             [ @ EXCEPT !.st = "ok", !.content = res.val ] ], o)
  ELSE [ h EXCEPT !.error = <<asErrorOr(res.err, FailedToLoadFiles)>>,
                  !.loading = FALSE,
                  !.ops[o] = finish([@ EXCEPT !.items[i].st = "failed"],
                                    Returned(Undefined)) ]

\* the download of item i has settled, l. 31-37
downloadSettled(h, o, i, res) ==
  loadAwaitAll(
    [ h EXCEPT !.ops[o].items[i] =
        IF res.kind = "return"
        THEN [ @ EXCEPT !.st = "ok", !.content = res.val ]
        ELSE [ @ EXCEPT !.st = "failed", !.content = <<>> ] ], o)

(* addFile, l. 56-88 *)

\* l. 57-61
addFileEntry(h, o, filename, content) ==
  LET r == [ NoOp EXCEPT !.kind = "addFile", !.seen = h.files,
                         !.modelId = h.modelId,
                         !.items = <<Item(filename, content, "waiting")>> ]
  IN IF h.user = NoUser
     THEN [ h EXCEPT !.ops[o] = finish(r, Thrown(NotAuthenticated)) ]
     ELSE [ h EXCEPT !.loading = TRUE,
                     !.ops[o] = [ r EXCEPT !.pc = "uploading",
                                           !.items[1].st = "uploading" ] ]

\* variant of addFileUpdate: the tree the call found is extended
addFileUpdateStale(r, current) ==
  buildFileTree(topRecords(r.seen) \o <<recordOf(r.items[1])>>)

\* the updater of l. 63-80, applied to the tree current
addFileUpdate(r, current) ==
  buildFileTree(topRecords(current) \o <<recordOf(r.items[1])>>)

\* variant of addFileSettled: a successful upload resets the error
addFileSettledClearsError(h, o, res) ==
  IF res.kind = "return"
  THEN [ h EXCEPT
           !.files = addFileUpdate(h.ops[o], h.files),
           !.loading = FALSE,
           !.error = <<>>,
           !.ops[o] = finish([@ EXCEPT !.writes = @ + 1,
                                       !.items[1].st = "uploaded"],
                             Returned(Undefined)) ]
  ELSE [ h EXCEPT
           !.error = <<asErrorOr(res.err, FailedToCreateFile)>>,
           !.loading = FALSE,
           !.ops[o] = finish([@ EXCEPT !.items[1].st = "uploadFailed",
                                       !.items[1].err = <<res.err>>],
                             Thrown(asErrorOr(res.err, FailedToCreateFile))) ]

\* uploadFile has settled, l. 61-87
addFileSettled(h, o, res) ==
  IF res.kind = "return"
  THEN [ h EXCEPT
           !.files = addFileUpdate(h.ops[o], h.files),
           !.loading = FALSE,
           !.ops[o] = finish([@ EXCEPT !.writes = @ + 1,
                                       !.items[1].st = "uploaded"],
                             Returned(Undefined)) ]
  ELSE [ h EXCEPT
           !.error = <<asErrorOr(res.err, FailedToCreateFile)>>,
           !.loading = FALSE,
           !.ops[o] = finish([@ EXCEPT !.items[1].st = "uploadFailed",
                                       !.items[1].err = <<res.err>>],
                             Thrown(asErrorOr(res.err, FailedToCreateFile))) ]

(* uploadFiles, l. 90-133 *)

Uploaded(item) == item.st = "uploaded"

\* results of l. 111: one record per upload, in the order of the pushes
uploadResults(items) ==
  LET done == SelectSeq(items, Uploaded)
  IN [ i \in 1..Len(done) |-> recordOf(done[i]) ]

\* the updater of l. 113-125, applied to the tree current
uploadFilesUpdate(r, current) ==
  buildFileTree(topRecords(current) \o uploadResults(r.items))

\* l. 113-125 and 131
uploadWrite(h, o) ==
  [ h EXCEPT
      !.files = uploadFilesUpdate(h.ops[o], h.files),
      !.loading = FALSE,
      !.ops[o] = finish([@ EXCEPT !.writes = @ + 1], Returned(Undefined)) ]

\* l. 126-131
uploadCatch(h, o, err) ==
  [ h EXCEPT
      !.error = <<asErrorOr(err, FailedToUploadFiles)>>,
      !.loading = FALSE,
      !.ops[o] = finish(@, Thrown(asErrorOr(err, FailedToUploadFiles))) ]

\* await Promise.all(uploads), l. 111: it rejects with the first rejection
\* among the uploads pushed, and resolves when all of them have resolved
uploadAwaitAll(h, o) ==
  LET r == h.ops[o]
      failed == { i \in 1..Len(r.items) : r.items[i].st = "uploadFailed" }
      first == CHOOSE i \in failed : \A j \in failed : i <= j
  IN IF r.pc # "awaitAll" THEN h
     ELSE IF failed # {} THEN uploadCatch(h, o, r.items[first].err[1])
     ELSE IF \A i \in 1..Len(r.items) : r.items[i].st # "uploading"
     THEN uploadWrite(h, o)
     ELSE h

\* the for statement, l. 97-99: the text of the next file is awaited, or
\* the loop is over and l. 111 is reached
uploadLoop(h, o) ==
  LET r == h.ops[o]
  IN IF r.cursor < Len(r.items)
     THEN [ h EXCEPT !.ops[o].cursor = @ + 1,
                     !.ops[o].items[r.cursor + 1].st = "reading" ]
     ELSE uploadAwaitAll([ h EXCEPT !.ops[o].pc = "awaitAll" ], o)

\* l. 91-111: with files the text of the first one is awaited, without any
\* the call is suspended at await Promise.all(uploads)
uploadFilesEntry(h, o, fileList) ==
  LET r == [ NoOp EXCEPT
               !.kind = "uploadFiles", !.seen = h.files,
               !.modelId = h.modelId,
               !.items = [ i \in 1..Len(fileList) |->
                             Item(fileList[i].name, fileList[i].content,
                                  "waiting") ] ]
  IN IF h.user = NoUser
     THEN [ h EXCEPT !.ops[o] = finish(r, Thrown(NotAuthenticated)) ]
     ELSE IF fileList = <<>>
     THEN [ h EXCEPT !.loading = TRUE,
                     !.ops[o] = [ r EXCEPT !.pc = "awaitAll" ] ]
     ELSE uploadLoop([ h EXCEPT !.loading = TRUE,
                                !.ops[o] = [ r EXCEPT !.pc = "reading" ] ], o)

\* file.text() has settled, l. 99-108: the upload is started and pushed, or
\* the failure is logged
readSettled(h, o, ok) ==
  uploadLoop([ h EXCEPT !.ops[o].items[h.ops[o].cursor].st =
                          IF ok THEN "uploading" ELSE "readFailed" ], o)

\* the upload of item i has settled, l. 103-104
fileUploadSettled(h, o, i, res) ==
  uploadAwaitAll(
    [ h EXCEPT !.ops[o].items[i] =
        IF res.kind = "return"
        THEN [ @ EXCEPT !.st = "uploaded" ]
        ELSE [ @ EXCEPT !.st = "uploadFailed", !.err = <<res.err>> ] ], o)

(* inputs *)

PathAX == <<"a", "/", "x">>
PathB == <<"b">>
PathC == <<"c">>
Contents == { <<>>, <<"1">> }

\* filename and content arguments of addFile
AddFilePool == { [name |-> n, content |-> c] : n \in {PathAX, PathB, PathC},
                                               c \in Contents }

\* File objects: name is a base name
FilePool == { [name |-> n, content |-> c] : n \in {PathB, PathC},
                                            c \in Contents }

\* the FileList arguments of uploadFiles: up to two files of different names
FileLists ==
  {<<>>} \cup { <<f>> : f \in FilePool }
         \cup { <<f, g>> : f \in {x \in FilePool : x.name = PathB},
                           g \in {x \in FilePool : x.name = PathC} }

\* what listFiles, downloadFile and uploadFile may return or throw to a call
\* h; with an empty modelId the path validation of the storage function fails
ListResults(h) ==
  { Returned(<<>>), Returned(<<PathB>>), Returned(<<PathAX, PathB>>),
    Thrown(BackendError), Thrown(PlainFetchObject) }

DownloadResults(h) ==
  { Returned(c) : c \in Contents } \cup { Thrown(BackendError) }

UploadResults(h) ==
  IF h.modelId = <<>> THEN { Thrown(InvalidPathError) }
  ELSE { Returned(Str(<<"p">>)), Thrown(BackendError), Thrown(FailedToFetch),
         Thrown(PlainFetchObject) }

(* actions *)

InitHook ==
  /\ isConnected = FALSE
  /\ proc = [p \in Procs |-> IdleProc]
  /\ auth = NoAuth
  /\ env = NoEnv
  /\ \E user \in {NoUser, "u1"}, modelId \in {<<>>, <<"m">>} :
       hook = HookRendered(user, modelId)

\* a call may begin in a slot that holds no call or a finished one
HookCanCall(o) == hook.ops[o].pc \in {"idle", "done"}

\* the component is rendered again
Render(user, modelId, fresh) ==
  /\ ~hook.effectDue
  /\ hook' = rendered(hook, user, modelId, fresh)

\* the effect of the latest render runs, l. 14-53
Load(o) ==
  /\ hook.effectDue
  /\ HookCanCall(o)
  /\ hook' = effectRun(hook, o)

ListSettles(o, res) ==
  /\ hook.ops[o].pc = "listing"
  /\ hook' = listSettled(hook, o, res)

DownloadSettles(o, i, res) ==
  /\ hook.ops[o].pc = "downloading"
  /\ i \in 1..Len(hook.ops[o].items)
  /\ hook.ops[o].items[i].st = "pending"
  /\ hook' = downloadSettled(hook, o, i, res)

AddFile(o, filename, content) ==
  /\ HookCanCall(o)
  /\ hook' = addFileEntry(hook, o, filename, content)

AddFileUploadSettles(o, res) ==
  /\ hook.ops[o].pc = "uploading"
  /\ hook' = addFileSettled(hook, o, res)

UploadFiles(o, fileList) ==
  /\ HookCanCall(o)
  /\ hook' = uploadFilesEntry(hook, o, fileList)

ReadSettles(o, ok) ==
  /\ hook.ops[o].pc = "reading"
  /\ hook' = readSettled(hook, o, ok)

\* the call suspended at await Promise.all(uploads) with nothing left to
\* wait for goes on, l. 111-131
AwaitAllResumes(o) ==
  /\ hook.ops[o].pc = "awaitAll"
  /\ uploadAwaitAll(hook, o) # hook
  /\ hook' = uploadAwaitAll(hook, o)

\* an upload of the batch settles; it may do so while later files are read,
\* and after the call has thrown
FileUploadSettles(o, i, res) ==
  /\ hook.ops[o].kind = "uploadFiles"
  /\ i \in 1..Len(hook.ops[o].items)
  /\ hook.ops[o].items[i].st = "uploading"
  /\ hook' = fileUploadSettled(hook, o, i, res)

AddFileStep(O, addPool) ==
  \/ \E o \in O, f \in addPool : AddFile(o, f.name, f.content)
  \/ \E o \in O : \E res \in UploadResults(hook.ops[o]) :
       AddFileUploadSettles(o, res)

HookStep(O) ==
  \/ AddFileStep(O, AddFilePool)
  \/ \E fresh \in BOOLEAN : Render(hook.user, hook.modelId, fresh)
  \/ \E o \in O : Load(o)
  \/ \E o \in O : \E res \in ListResults(hook.ops[o]) : ListSettles(o, res)
  \/ \E o \in O, i \in 1..2 : \E res \in DownloadResults(hook.ops[o]) :
       DownloadSettles(o, i, res)
  \/ \E o \in O, fileList \in FileLists : UploadFiles(o, fileList)
  \/ \E o \in O : AwaitAllResumes(o)
  \/ \E o \in O, ok \in BOOLEAN : ReadSettles(o, ok)
  \/ \E o \in O, i \in 1..2 : \E res \in UploadResults(hook.ops[o]) :
       FileUploadSettles(o, i, res)

\* one call at a time
NextHook == HookStep(HookMain) /\ UNCHANGED <<isConnected, proc, auth, env>>

SpecHook == InitHook /\ [][NextHook]_vars

\* two addFile calls that overlap, with one content per filename
ConcAddFilePool ==
  { [name |-> PathAX, content |-> <<"1">>],
    [name |-> PathB, content |-> <<"1">>],
    [name |-> PathC, content |-> <<>>] }

NextHookConc ==
  /\ AddFileStep(HookOps, ConcAddFilePool)
  /\ UNCHANGED <<isConnected, proc, auth, env>>

SpecHookConc == InitHook /\ [][NextHookConc]_vars

(* The hook across renders.  The component is first rendered without a    *)
(* user (AuthProvider starts with user null) and its effect runs; later    *)
(* renders bring a user and a modelId, and after each the effect, whose    *)
(* dependencies are [modelId, user] (l. 53), runs loadFiles again.  A call *)
(* in flight goes on with the modelId of the render that started it, and   *)
(* may settle between a render and its effect.                             *)

PathD == <<"d">>
ModelM == <<"m">>
ModelN == <<"n">>

\* what a render may hand to the hook: nobody signed in, or a user with no
\* model, with model m or with model n
RenderPool ==
  { [user |-> NoUser, modelId |-> <<>>] }
    \cup { [user |-> "u1", modelId |-> m] : m \in {<<>>, ModelM, ModelN} }

\* the slot of the calls of addFile and uploadFiles; loads use both slots
CallbackOps == {"o2"}

\* each model has its own file in storage; the listing of model m may fail
StoredList(r) ==
  IF r.modelId = ModelM THEN { Returned(<<PathB>>), Thrown(BackendError) }
  ELSE { Returned(<<PathC>>) }

StoredDownload(r) == { Returned(<<"1">>), Thrown(BackendError) }

RenderAddFilePool == { [name |-> PathD, content |-> <<"1">>] }

RenderFileLists == { <<>> }

StoredUpload(r) ==
  IF r.modelId = <<>> THEN { Thrown(InvalidPathError) }
  ELSE { Returned(Str(<<"p">>)), Thrown(BackendError) }

InitHookProps ==
  /\ isConnected = FALSE
  /\ proc = [p \in Procs |-> IdleProc]
  /\ auth = NoAuth
  /\ env = NoEnv
  /\ \E modelId \in {<<>>, ModelM} : hook = HookRendered(NoUser, modelId)

\* renders bring any user and modelId of the pool; addFile and uploadFiles
\* are called from event handlers, after the effect of the render has run
NextHookProps ==
  /\ \/ \E props \in RenderPool, fresh \in BOOLEAN :
          Render(props.user, props.modelId, fresh)
     \/ \E o \in HookOps : Load(o)
     \/ \E o \in CallbackOps, f \in RenderAddFilePool :
          ~hook.effectDue /\ AddFile(o, f.name, f.content)
     \/ \E o \in HookOps : \E res \in StoredUpload(hook.ops[o]) :
          AddFileUploadSettles(o, res)
     \/ \E o \in HookOps : \E res \in StoredList(hook.ops[o]) :
          ListSettles(o, res)
     \/ \E o \in HookOps : \E res \in StoredDownload(hook.ops[o]) :
          DownloadSettles(o, 1, res)
     \/ \E o \in CallbackOps, fileList \in RenderFileLists :
          ~hook.effectDue /\ UploadFiles(o, fileList)
     \/ \E o \in HookOps : AwaitAllResumes(o)
  /\ UNCHANGED <<isConnected, proc, auth, env>>

SpecHookProps == InitHookProps /\ [][NextHookProps]_vars

-----------------------------------------------------------------------------
(* Claims about withRetry *)

\* the message of e matches none of the five transient signatures
NonTransient(e) == \A sig \in Signatures : ~includes(e.message, sig)

\* the calls that go through withRetry
ThroughWithRetry == StorageFns \cup {"withRetry"}

\* withRetry has returned or thrown: the call is over, or downloadFile awaits
\* the text of the Blob it got
WithRetryOver(r) == r.pc \in {"done", "text"}

\* C1: a withRetry call with maxRetries >= 1 whose operation has thrown the
\* Error "... Failed to fetch" on every invocation so far has returned no
\* value; it backs off only while attempts remain, and once it is over it has
\* invoked the operation exactly maxRetries times and has thrown that error.
C1_AlwaysFailedToFetch ==
  \A p \in Procs :
    LET r == proc[p] IN
    (r.fn = "withRetry" /\ r.maxRetries >= 1
       /\ r.uniform /\ r.last = Reject(FailedToFetch)) =>
      /\ r.result.kind # "return"
      /\ r.opCalls <= r.maxRetries
      /\ r.pc = "backoff" => r.opCalls < r.maxRetries
      /\ r.pc = "done" =>
           r.opCalls = r.maxRetries /\ r.result = Thrown(FailedToFetch)

C1_Witness ==
  \E p \in Procs :
    /\ proc[p].fn = "withRetry" /\ proc[p].pc = "done"
    /\ proc[p].maxRetries = MaxRetriesArg
    /\ proc[p].uniform /\ proc[p].last = Reject(FailedToFetch)
    /\ proc[p].opCalls = MaxRetriesArg
    /\ proc[p].result = Thrown(FailedToFetch)

\* C2: when an invocation of the operation throws an error whose message
\* matches no transient signature, at whatever attempt, the call is over: it
\* has thrown that very error, no backoff sleep followed the failure and no
\* further invocation happened; if every invocation threw it, there was one.
C2_NonRetryableThrownAtOnce ==
  \A p \in Procs :
    LET r == proc[p] IN
    (r.fn \in ThroughWithRetry /\ r.last.k = "reject"
       /\ NonTransient(r.last.e)) =>
      /\ r.pc = "done"
      /\ r.result = Thrown(r.last.e)
      /\ r.opCalls = r.attempt
      /\ r.sleeps = r.attempt - 1
      /\ r.uniform => r.opCalls = 1

C2_Witness ==
  \E p \in Procs :
    /\ proc[p].fn = "withRetry" /\ proc[p].pc = "done"
    /\ proc[p].last = Reject(PermissionDenied)
    /\ proc[p].attempt = 2 /\ proc[p].maxRetries = MaxRetriesArg
    /\ proc[p].sleeps = 1
    /\ proc[p].result = Thrown(PermissionDenied)

\* C3 as claimed: an attempt that resolved with a falsy result while attempts
\* remain does not make withRetry throw
C3_FalsyIsRetried ==
  \A p \in Procs :
    LET r == proc[p] IN
    (r.fn = "withRetry" /\ r.last.k = "resolve" /\ ~truthy(r.last.v)
       /\ r.attempt < r.maxRetries) =>
      r.result.kind # "throw"

\* C3, amended: an attempt that resolved with a falsy result ends the call:
\* withRetry has thrown the Error "Operation returned no data", whatever
\* attempts remain, without a backoff sleep and without a further invocation.
C3_FalsyThrownAtOnce ==
  \A p \in Procs :
    LET r == proc[p] IN
    (r.fn = "withRetry" /\ r.last.k = "resolve" /\ ~truthy(r.last.v)) =>
      /\ r.pc = "done"
      /\ r.result = Thrown(NoDataError)
      /\ NonTransient(NoDataError)
      /\ r.opCalls = r.attempt
      /\ r.sleeps = r.attempt - 1

C3_Witness ==
  \E p \in Procs :
    /\ proc[p].fn = "withRetry" /\ proc[p].pc = "done"
    /\ proc[p].last = Resolve(Undefined)
    /\ proc[p].attempt = 1 /\ proc[p].maxRetries = MaxRetriesArg
    /\ proc[p].opCalls = 1
    /\ proc[p].result = Thrown(NoDataError)

\* C4: a call never invokes the operation more than maxRetries times, and an
\* attempt that resolved with a truthy result ends the call with no further
\* invocation; withRetry has then returned exactly that result.
C4_AtMostMaxRetries ==
  \A p \in Procs :
    LET r == proc[p] IN
    r.fn \in ThroughWithRetry =>
      /\ r.opCalls <= r.maxRetries
      /\ r.opCalls = r.attempt
      /\ (r.last.k = "resolve" /\ truthy(r.last.v)) =>
           /\ WithRetryOver(r)
           /\ r.fn = "withRetry" => r.result = Returned(r.last.v)

C4_Witness ==
  \E p \in Procs :
    /\ proc[p].fn = "withRetry" /\ proc[p].pc = "done"
    /\ proc[p].maxRetries = MaxRetriesArg
    /\ proc[p].attempt = 2 /\ proc[p].opCalls = 2
    /\ proc[p].last = Resolve(Num(1))
    /\ proc[p].result = Returned(Num(1))

-----------------------------------------------------------------------------
(* Claims about waitForConnection and the connected flag *)

\* C5: a waitForConnection call that is over has returned a boolean and has
\* thrown nothing, whatever its probes did: true exactly when one of its
\* probes resolved without error, and then isConnected is true; false only
\* when the timeout has elapsed, and then isConnected is as the call found it.
C5_WaitForConnectionNeverThrows ==
  \A p \in Procs :
    LET r == proc[p] IN
    (r.fn = "waitForConnection" /\ r.pc = "done") =>
      /\ r.result.kind = "return"
      /\ r.result.val \in {Bool(TRUE), Bool(FALSE)}
      /\ r.result.val = Bool(TRUE) <=> r.probeOk
      /\ r.result.val = Bool(TRUE) => isConnected
      /\ r.result.val = Bool(FALSE) =>
           r.elapsed >= r.timeout /\ isConnected = r.flagAtStart

\* a call that returned false after the timeout, all its probes having failed
C5_Witness ==
  \E p \in Procs :
    /\ proc[p].fn = "waitForConnection" /\ proc[p].pc = "done"
    /\ proc[p].timeout = WaitTimeoutDefault
    /\ proc[p].probes >= 2
    /\ proc[p].result = Returned(Bool(FALSE))
    /\ ~isConnected

\* task p issues a readiness probe in this step
IssuesProbe(p) == proc'[p] # proc[p] /\ proc'[p].pc = "probe"

\* C6 as claimed: the flag never goes back to false, and while it is true no
\* readiness probe is issued on behalf of a withRetry call
C6_NoProbeOnceConnected ==
  [][ /\ isConnected => isConnected'
      /\ \A p \in Procs :
           (isConnected /\ IssuesProbe(p)) =>
             proc'[p].fn \notin ThroughWithRetry ]_vars

\* C6, amended: the flag never goes back to false, whatever the calls and
\* their probes and operations do, and a call through withRetry that found
\* the flag true issues no readiness probe (a call that found it false keeps
\* probing until a probe of its own succeeds or its timeout elapses, also
\* after another call has set the flag).
C6_OneWayLatch ==
  [][ /\ isConnected => isConnected'
      /\ \A p \in Procs :
           (proc'[p].fn \in ThroughWithRetry /\ proc'[p].flagAtStart) =>
             /\ ~IssuesProbe(p)
             /\ proc'[p].probes = 0 ]_vars

\* the flag is true; a withRetry call that found it true has failed without
\* a probe, while a withRetry call that found it false is probing again
C6_Witness ==
  \E p \in Procs, q \in Procs :
    /\ isConnected
    /\ proc[p].fn = "withRetry" /\ proc[p].flagAtStart
    /\ proc[p].pc = "done" /\ proc[p].result.kind = "throw"
    /\ proc[p].opCalls >= 1 /\ proc[p].probes = 0
    /\ proc[q].fn = "withRetry" /\ ~proc[q].flagAtStart
    /\ proc[q].pc = "probe" /\ proc[q].probes >= 2

\* the call has reached the first line of withRetry
EnteredWithRetry(r) ==
  \/ r.fn = "withRetry" /\ r.pc # "idle"
  \/ r.fn \in StorageFns /\ (r.probes > 0 \/ r.opCalls > 0)

\* C7: a call through withRetry that found the flag false first waits for the
\* connection: the operation is not invoked while waitForConnection probes or
\* sleeps, and it has been invoked only if waitForConnection has returned; a
\* call that found the flag true never waits and issues no readiness probe.
C7_WaitsBeforeFirstAttempt ==
  \A p \in Procs :
    LET r == proc[p] IN
    EnteredWithRetry(r) =>
      /\ ~r.flagAtStart =>
           /\ r.probes >= 1
           /\ r.opCalls >= 1 => r.wfc # "none"
           /\ r.pc \in {"probe", "sleep"} => r.opCalls = 0 /\ r.wfc = "none"
      /\ r.flagAtStart => r.probes = 0 /\ r.wfc = "none"

\* the first invocation is in flight after waitForConnection returned false
C7_Witness ==
  \E p \in Procs :
    /\ proc[p].fn = "withRetry" /\ ~proc[p].flagAtStart
    /\ proc[p].wfc = "false" /\ proc[p].probes >= 1
    /\ proc[p].pc = "operation" /\ proc[p].opCalls = 1

-----------------------------------------------------------------------------
(* Claims about the storage functions *)

\* nothing is left of s after trimming
EmptyAfterTrim(s) == \A i \in 1..Len(s) : s[i] \in Whitespace

AnyEmptyAfterTrim(a) ==
  EmptyAfterTrim(a.userId) \/ EmptyAfterTrim(a.modelId)
    \/ EmptyAfterTrim(a.filename)

\* C8: an uploadFile call with content of more than 500 MiB is over at once:
\* it has thrown, has invoked no storage call and has issued no readiness
\* probe, whatever the connected flag; content of exactly 500 MiB passes the
\* size check and the call goes on into withRetry.
C8_OversizedUploadFailsFirst ==
  \A p \in Procs :
    LET r == proc[p] IN
    r.fn = "uploadFile" =>
      /\ r.args.size > MaxFileSizeMB * 1024 * 1024 =>
           /\ r.pc = "done" /\ r.result.kind = "throw"
           /\ r.opCalls = 0 /\ r.probes = 0 /\ r.wfc = "none"
           /\ ~AnyEmptyAfterTrim(r.args) => r.result = Thrown(FileSizeError)
      /\ (r.args.size = MaxFileSizeMB * 1024 * 1024
            /\ ~AnyEmptyAfterTrim(r.args)) =>
           /\ r.result # Thrown(FileSizeError)
           /\ EnteredWithRetry(r)

\* an oversized upload, rejected while the flag is still false
C8_Witness ==
  \E p \in Procs :
    /\ proc[p].fn = "uploadFile" /\ proc[p].pc = "done"
    /\ proc[p].args.size = MAX_FILE_SIZE + 1
    /\ ~proc[p].flagAtStart /\ ~isConnected
    /\ proc[p].result = Thrown(FileSizeError)
    /\ proc[p].opCalls = 0 /\ proc[p].probes = 0

\* C9: an uploadFile, downloadFile or deleteFile call one of whose userId,
\* modelId, filename is empty after trimming is over at once: it has thrown
\* the validation error, withRetry was not entered, no readiness probe and no
\* storage call was issued, and nothing was retried.
C9_EmptyComponentFailsFirst ==
  \A p \in Procs :
    LET r == proc[p] IN
    (r.fn \in {"uploadFile", "downloadFile", "deleteFile"}
       /\ AnyEmptyAfterTrim(r.args)) =>
      /\ r.pc = "done"
      /\ r.result = Thrown(InvalidPathError)
      /\ ~EnteredWithRetry(r)
      /\ r.opCalls = 0 /\ r.probes = 0 /\ r.sleeps = 0
      /\ r.attempt = 0 /\ r.wfc = "none"

\* a deleteFile whose filename is a blank, with the flag still false
C9_Witness ==
  \E p \in Procs :
    /\ proc[p].fn = "deleteFile" /\ proc[p].pc = "done"
    /\ proc[p].args.userId = <<" ", "a">>
    /\ proc[p].args.modelId = <<" ", "a">>
    /\ proc[p].args.filename = <<" ">>
    /\ ~proc[p].flagAtStart
    /\ proc[p].result = Thrown(InvalidPathError)
    /\ proc[p].opCalls = 0 /\ proc[p].probes = 0

-----------------------------------------------------------------------------
(* Claims about buildStoragePath *)

NoSlash(s) == \A i \in 1..Len(s) : s[i] # "/"

\* non-empty, and trim leaves it as it is
Trimmed(s) ==
  s # <<>> /\ s[1] \notin Whitespace /\ s[Len(s)] \notin Whitespace

\* a filename of non-empty segments with no leading slash
NoEmptySegmentBefore(s) ==
  s[1] # "/" /\ \A i \in 1..(Len(s) - 1) : ~(s[i] = "/" /\ s[i + 1] = "/")

\* the strings the amended C10 is about
IdStrs == { s \in PathStrs : Trimmed(s) /\ NoSlash(s) }
FileStrs == { s \in PathStrs : Trimmed(s) /\ NoEmptySegmentBefore(s) }
NonEmptyStrs == PathStrs \ {<<>>}

\* C10 as claimed: two triples of non-empty strings that differ in a
\* component and for which a path is composed have different paths
C10_InjectiveOnNonEmpty ==
  \A p \in Main :
    LET r == proc[p] IN
    (r.fn = "buildStoragePath" /\ r.pc = "done" /\ r.result.kind = "return") =>
      \A u \in NonEmptyStrs, m \in NonEmptyStrs, f \in NonEmptyStrs :
        (PathArgs(u, m, f) # r.args /\ buildStoragePath(u, m, f).ok) =>
          buildStoragePath(u, m, f).path # r.result.val.s

\* C10, amended: on triples whose components are non-empty and have no
\* leading or trailing whitespace, whose userId and modelId contain no slash
\* and whose filename neither starts with a slash nor holds two slashes in a
\* row, buildStoragePath returns a path, and two such triples that differ in
\* a component have different paths.
C10_InjectiveOnCleanComponents ==
  \A p \in Main :
    LET r == proc[p] IN
    (r.fn = "buildStoragePath" /\ r.pc = "done"
       /\ r.args.userId \in IdStrs /\ r.args.modelId \in IdStrs
       /\ r.args.filename \in FileStrs) =>
      /\ r.result.kind = "return"
      /\ \A u \in IdStrs, m \in IdStrs, f \in FileStrs :
           PathArgs(u, m, f) # r.args =>
             /\ buildStoragePath(u, m, f).ok
             /\ buildStoragePath(u, m, f).path # r.result.val.s

\* the path of a clean triple whose filename has a directory segment
C10_Witness ==
  \E p \in Main :
    /\ proc[p].fn = "buildStoragePath" /\ proc[p].pc = "done"
    /\ proc[p].args.userId \in IdStrs /\ proc[p].args.modelId \in IdStrs
    /\ proc[p].args.filename \in FileStrs
    /\ ~NoSlash(proc[p].args.filename)
    /\ proc[p].result.kind = "return"

-----------------------------------------------------------------------------
(* Claims about the results of the storage functions and the backoff *)

\* the storage call of the task has resolved with a response whose error
\* field is not null
ErrorResponse(r) ==
  /\ r.fn \in StorageFns
  /\ r.last.k = "resolve"
  /\ r.last.v.error # <<>>

\* C11: when the storage call of uploadFile, downloadFile, listFiles or
\* deleteFile has resolved with a non-null error field, the function is over
\* and has thrown that very error value, whatever its message, and has
\* returned nothing; the call that brought the error was the last one issued,
\* no backoff sleep followed it, and when no attempt failed before it the
\* storage call was issued exactly once.
C11_BackendErrorThrownUnretried ==
  \A p \in Procs :
    LET r == proc[p] IN
    ErrorResponse(r) =>
      /\ r.pc = "done"
      /\ r.result = Thrown(r.last.v.error[1])
      /\ r.opCalls = r.attempt
      /\ r.sleeps = r.attempt - 1
      /\ r.uniform => r.opCalls = 1

C11_Witness ==
  \E p \in Procs :
    /\ proc[p].fn = "uploadFile" /\ proc[p].pc = "done"
    /\ proc[p].last = Resolve(Response(Undefined, <<FailedToFetch>>))
    /\ proc[p].uniform /\ proc[p].opCalls = 1
    /\ proc[p].result = Thrown(FailedToFetch)

\* baseDelay * 2^(k - 1), the exponential part of the delay after attempt k
Exponential(r) == r.baseDelay * 2^(r.attempt - 1)

\* C19: while withRetry sleeps after failed attempt k, k is at least 1 and
\* below maxRetries, the failure was a retryable one, and the delay is
\* min(baseDelay * 2^(k-1) + j, 15000) for a jitter j in [0, baseDelay): at
\* most 15000 and at least min(baseDelay * 2^(k-1), 15000); a call sleeps
\* once per attempt it has left behind, so that no sleep follows the attempt
\* that ended the call, be it the last one or one with a non-retryable error.
C19_BackoffDelayBounds ==
  \A p \in Procs :
    LET r == proc[p] IN
    r.fn \in ThroughWithRetry =>
      /\ r.pc = "backoff" =>
           /\ 1 <= r.attempt /\ r.attempt < r.maxRetries
           /\ r.sleeps = r.attempt
           /\ r.last = Pending
                \/ (r.last.k = "reject" /\ isRetryableError(r.last.e))
           /\ r.delay <= MaxDelay
           /\ r.delay >= Min(Exponential(r), MaxDelay)
           /\ \/ r.delay < MaxDelay /\ r.delay < Exponential(r) + r.baseDelay
              \/ r.delay = MaxDelay
                   /\ Exponential(r) + r.baseDelay > MaxDelay
      /\ (r.pc \in {"operation", "done"} /\ r.attempt >= 1) =>
           r.sleeps = r.attempt - 1
      /\ r.attempt = 0 => r.sleeps = 0

\* the second backoff of a call with baseDelay 8000 is cut to 15000
C19_Witness ==
  \E p \in Procs :
    /\ proc[p].fn = "withRetry" /\ proc[p].pc = "backoff"
    /\ proc[p].baseDelay = 8 * BaseDelayDefault
    /\ proc[p].attempt = 2
    /\ Exponential(proc[p]) > MaxDelay
    /\ proc[p].delay = MaxDelay

\* every invocation of the operation so far was still pending when the 10 s
\* timer ended its attempt
OperationHangs(r) ==
  r.fn \in ThroughWithRetry /\ r.uniform /\ r.last = Pending

\* the call is inside the retry loop
InRetryLoop(r) ==
  r.fn \in ThroughWithRetry /\ r.pc \in {"operation", "backoff"}

\* while every invocation of the operation hangs, each attempt so far has
\* left its invocation pending, the next attempt invokes the operation anew,
\* and the call ends with the timeout error after maxRetries invocations
HangingOperationTimesOut ==
  \A p \in Procs :
    LET r == proc[p] IN
    OperationHangs(r) =>
      /\ r.opCalls <= r.maxRetries
      /\ r.pc = "backoff" => r.abandoned = r.opCalls /\ r.opCalls < r.maxRetries
      /\ r.pc = "operation" => r.abandoned = r.opCalls - 1
      /\ r.pc = "done" =>
           /\ r.opCalls = r.maxRetries
           /\ r.abandoned = r.maxRetries
           /\ r.result = Thrown(RequestTimeoutError)

\* C20: withRetry terminates also when the operation never settles: a call
\* inside the retry loop is over in the end, whatever its invocations do;
\* when all of them hang, each attempt is ended by the 10 s timer as a
\* retryable failure, the operation is invoked anew while the earlier
\* invocations are still pending, and after exactly maxRetries invocations
\* the call has thrown the Error 'Request timeout'.
C20_TerminatesWhenOperationHangs ==
  /\ []HangingOperationTimesOut
  /\ \A p \in Main :
       InRetryLoop(proc[p]) ~> WithRetryOver(proc[p])

C20_Witness ==
  \E p \in Procs :
    /\ proc[p].fn = "withRetry" /\ proc[p].pc = "done"
    /\ OperationHangs(proc[p])
    /\ proc[p].maxRetries = MaxRetriesArg
    /\ proc[p].opCalls = MaxRetriesArg /\ proc[p].abandoned = MaxRetriesArg
    /\ proc[p].result = Thrown(RequestTimeoutError)

-----------------------------------------------------------------------------
(* Claims about readEnvVariable *)

\* the source holds a non-empty value under the name
Present(source, name) == source[name] # Undefined /\ source[name] # Str(<<>>)

\* C18: readEnvVariable returns the value the primary source holds under the
\* primary name whenever that is present, whatever the fallback source
\* holds; else the value the fallback source holds under the fallback name
\* when that is present; else, when required, it throws an error whose
\* message names both variables; else it returns undefined.  An empty string
\* counts as absent in both sources.
C18_PrimaryThenFallback ==
  env.pc = "done" =>
    IF Present(env.processEnv, env.systemVar)
    THEN env.result = Returned(env.processEnv[env.systemVar])
    ELSE IF Present(env.metaEnv, env.viteVar)
    THEN env.result = Returned(env.metaEnv[env.viteVar])
    ELSE IF env.isRequired
    THEN /\ env.result.kind = "throw"
         /\ includes(env.result.err.message, <<env.systemVar>>)
         /\ includes(env.result.err.message, <<env.viteVar>>)
    ELSE env.result = Returned(Undefined)

\* the primary value is the empty string and the fallback value is returned
C18_Witness ==
  /\ env.pc = "done"
  /\ env.processEnv[env.systemVar] = Str(<<>>)
  /\ env.metaEnv[env.viteVar] = Str(<<"b">>)
  /\ env.result = Returned(Str(<<"b">>))

-----------------------------------------------------------------------------
(* Claims about AuthProvider *)

\* the step completes the initial session fetch
SessionCompletes == auth.session = "getSession" /\ auth'.session = "done"

\* the step delivers an auth-state event
EventArrives == auth'.events = auth.events + 1

\* C17: once the cleanup of the effect has run, a step that completes the
\* initial session fetch, with a session or with an error, or that delivers
\* an auth-state event leaves user, loading and error as they are; the
\* cleanup has unsubscribed the subscription, once.
C17_NoStateChangeAfterTeardown ==
  /\ [][ (auth.effect = "torn" /\ (SessionCompletes \/ EventArrives)) =>
           /\ auth'.user = auth.user
           /\ auth'.loading = auth.loading
           /\ auth'.error = auth.error ]_vars
  /\ [](auth.effect = "torn" => ~auth.subscribed /\ auth.unsubscribes = 1)
  /\ [](auth.effect = "active" => auth.subscribed /\ auth.unsubscribes = 0)

\* the fetch has completed and an event has arrived after the cleanup, and
\* the component still shows its initial state
C17_Witness ==
  /\ auth.effect = "torn"
  /\ auth.session = "done"
  /\ auth.late >= 2 /\ auth.events >= 1
  /\ auth.user = NoUser /\ auth.loading /\ auth.error = <<>>

-----------------------------------------------------------------------------
(* Claims about useModelFiles *)

\* the tree holds a file node of that path and content
HasFile(tree, path, content) ==
  [path |-> path, content |-> content] \in filesOf(tree)

\* the call in slot o is a load whose listFiles has resolved and that is over
LoadedAfterListing(o) ==
  /\ hook.ops[o].kind = "load"
  /\ hook.ops[o].listed
  /\ hook.ops[o].pc = "done"

\* C12: when listFiles has succeeded, the load completes whichever of the
\* downloads fail: once it is over error is null, loading is false, and
\* files is the tree built from one record per listed path, in the listed
\* order, with empty content for exactly the paths whose download failed and
\* the downloaded content for the others.
C12_LoadSurvivesDownloadFailures ==
  \A o \in HookMain :
    LoadedAfterListing(o) =>
      LET items == hook.ops[o].items IN
      /\ hook.error = <<>>
      /\ ~hook.loading
      /\ hook.ops[o].result = Returned(Undefined)
      /\ \A i \in 1..Len(items) : items[i].st \in {"ok", "failed"}
      /\ hook.files =
           buildFileTree([ i \in 1..Len(items) |->
                             [ path |-> items[i].path,
                               content |-> IF items[i].st = "failed" THEN <<>>
                                           ELSE items[i].content ] ])
      /\ \A i \in 1..Len(items) :
           HasFile(hook.files, items[i].path,
                   IF items[i].st = "failed" THEN <<>> ELSE items[i].content)

\* two paths were listed, the download of the first failed and the second
\* brought content
C12_Witness ==
  \E o \in HookMain :
    /\ LoadedAfterListing(o)
    /\ Len(hook.ops[o].items) = 2
    /\ hook.ops[o].items[1].st = "failed"
    /\ hook.ops[o].items[2].st = "ok"
    /\ hook.ops[o].items[2].content = <<"1">>
    /\ HasFile(hook.files, PathAX, <<>>)
    /\ HasFile(hook.files, PathB, <<"1">>)
    /\ hook.error = <<>> /\ ~hook.loading

\* the step ends the uploadFiles call of slot o that was past its entry
UploadFilesEnds(o) ==
  /\ hook.ops[o].kind = "uploadFiles"
  /\ hook.ops[o].pc \in {"reading", "awaitAll"}
  /\ hook'.ops[o].pc = "done"

\* a file of the batch failed, in reading its text or in uploading it
FileFailed(item) == item.st \in {"readFailed", "uploadFailed"}

\* C13 as claimed: with a user and a model, a file of the batch that fails,
\* in reading its text or in uploading it, does not abort the batch: the
\* uploadFiles call returns
\* without throwing and leaves error as it was, and files becomes the
\* current tree merged with the files that succeeded and without those that
\* failed.
C13_FileFailureDoesNotAbort ==
  [][ \A o \in HookMain :
        (UploadFilesEnds(o)
           /\ hook.modelId # <<>>
           /\ \E i \in 1..Len(hook'.ops[o].items) :
                FileFailed(hook'.ops[o].items[i])) =>
          /\ hook'.ops[o].result.kind = "return"
          /\ hook'.error = hook.error
          /\ hook'.files =
               buildFileTree(topRecords(hook.files)
                               \o uploadResults(hook'.ops[o].items))
          /\ \A i \in 1..Len(hook'.ops[o].items) :
               hook'.ops[o].items[i].st \in
                 {"readFailed", "uploadFailed", "uploaded"} ]_vars

\* C14: a load and an uploadFiles call write files at most once.  While
\* the call is under way files is as the call found it; files changes only
\* in the step that ends a call, and when a load or an uploadFiles call has
\* written, every download, every text read and every upload of its batch
\* had settled: no state shows a part of the batch merged.
C14_SingleWriteAfterBatch ==
  /\ [](\A o \in HookMain :
          LET r == hook.ops[o] IN
          r.kind \in {"load", "uploadFiles"} =>
            /\ r.writes <= 1
            /\ r.pc # "done" => r.writes = 0 /\ hook.files = r.seen
            /\ r.writes = 1 =>
                 /\ r.pc = "done"
                 /\ \A i \in 1..Len(r.items) :
                      r.items[i].st \in {"ok", "failed", "readFailed",
                                         "uploaded"})
  /\ [][ hook'.files # hook.files =>
           \E o \in HookMain :
             /\ hook'.ops[o].pc = "done"
             /\ hook'.ops[o].writes = 1
             /\ hook'.ops[o] # hook.ops[o] ]_vars

\* a batch of two files has been uploaded and merged by one write
C14_Witness ==
  \E o \in HookMain :
    LET r == hook.ops[o] IN
    /\ r.kind = "uploadFiles" /\ r.pc = "done" /\ r.writes = 1
    /\ Len(r.items) = 2
    /\ r.items[1].st = "uploaded" /\ r.items[2].st = "uploaded"
    /\ hook.files # r.seen
    /\ HasFile(hook.files, r.items[1].path, r.items[1].content)
    /\ HasFile(hook.files, r.items[2].path, r.items[2].content)

\* path p names a directory above path q
IsDirectoryOf(p, q) ==
  /\ Len(p) < Len(q)
  /\ SubSeq(q, 1, Len(p)) = p
  /\ q[Len(p) + 1] = "/"

\* filename can be added to the tree as a new file: no file of the tree has
\* that path, none sits where filename needs a directory, and filename is
\* not the path of a directory of the tree
Addable(tree, filename) ==
  \A f \in filesOf(tree) :
    /\ f.path # filename
    /\ ~IsDirectoryOf(f.path, filename)
    /\ ~IsDirectoryOf(filename, f.path)

\* the step ends the addFile call of slot o with success
AddFileSucceeds(o) ==
  /\ hook.ops[o].kind = "addFile"
  /\ hook.ops[o].pc = "uploading"
  /\ hook'.ops[o].result = Returned(Undefined)

\* C15 as claimed: a successful addFile call of a filename that is new to
\* the tree, with or without directory segments, leaves in the tree a file
\* node of that filename with the content given, and every file that was in
\* the tree before the call is still there with its content; so a sequence
\* of such calls, each awaited before the next, ends with all files added.
C15_AddFileKeepsEveryFile ==
  [][ \A o \in HookMain :
        (AddFileSucceeds(o)
           /\ Addable(hook.files, hook.ops[o].items[1].path)) =>
          /\ HasFile(hook'.files, hook.ops[o].items[1].path,
                     hook.ops[o].items[1].content)
          /\ filesOf(hook.files) \subseteq filesOf(hook'.files) ]_vars

\* both slots hold addFile calls that have succeeded, that found the same
\* tree when they were called, and whose filenames are different, new to
\* that tree and without directory segments
OverlappingAdds(o1, o2) ==
  LET r1 == hook.ops[o1]
      r2 == hook.ops[o2]
  IN /\ o1 # o2
     /\ r1.kind = "addFile" /\ r2.kind = "addFile"
     /\ r1.result = Returned(Undefined) /\ r2.result = Returned(Undefined)
     /\ r1.seen = r2.seen
     /\ r1.items[1].path # r2.items[1].path
     /\ \A r \in {r1, r2} :
          /\ Addable(r.seen, r.items[1].path)
          /\ \A i \in 1..Len(r.items[1].path) : r.items[1].path[i] # "/"

\* C16 as claimed: two addFile calls that overlap and succeed compute their
\* trees from the same current tree, so that the final tree holds only one
\* of the two files
C16_OverlapLosesUpdate ==
  \A o1, o2 \in HookOps :
    OverlappingAdds(o1, o2) =>
      ~( /\ HasFile(hook.files, hook.ops[o1].items[1].path,
                    hook.ops[o1].items[1].content)
         /\ HasFile(hook.files, hook.ops[o2].items[1].path,
                    hook.ops[o2].items[1].content) )

\* C16: two concurrent addFile calls lose no update through their overlap:
\* the updater of each call is applied to the tree as it is when the call's
\* upload has succeeded, the tree the other call has written included, and
\* not to the tree the call found; with two different filenames without
\* directory segments the final tree holds both files.
C16_NoLostUpdate ==
  /\ [][ \A o \in HookOps :
          AddFileSucceeds(o) =>
            hook'.files =
              buildFileTree(topRecords(hook.files)
                              \o <<recordOf(hook.ops[o].items[1])>>) ]_vars
  /\ [](\A o1, o2 \in HookOps :
          OverlappingAdds(o1, o2) =>
            /\ HasFile(hook.files, hook.ops[o1].items[1].path,
                       hook.ops[o1].items[1].content)
            /\ HasFile(hook.files, hook.ops[o2].items[1].path,
                       hook.ops[o2].items[1].content))

\* the calls adding b and c were both called on the empty tree and both
\* files are in the tree
C16_Witness ==
  /\ OverlappingAdds("o1", "o2")
  /\ hook.ops["o1"].seen = <<>>
  /\ hook.ops["o1"].items[1].path = PathB
  /\ hook.ops["o2"].items[1].path = PathC
  /\ HasFile(hook.files, PathB, <<"1">>)
  /\ HasFile(hook.files, PathC, <<>>)

-----------------------------------------------------------------------------
(* Claims about withRetry after a failed wait *)

\* task p begins a call in this step and the call reaches withRetry
BeginsWithRetry(p) ==
  /\ CanCall(p)
  /\ proc'[p] # proc[p]
  /\ EnteredWithRetry(proc'[p])

\* C21: a call through withRetry whose waitForConnection returned false goes
\* on: it invokes the operation, numbers its attempts from 1 and may use all
\* maxRetries of them, so that it ends only as its attempts decide; the
\* connected flag is false while that call lasts, and every call that
\* begins while the flag is false waits for the connection again, probing
\* before its first attempt.
C21_FailedWaitKeepsBudget ==
  /\ [](\A p \in Main :
          LET r == proc[p] IN
          (r.fn \in ThroughWithRetry /\ r.wfc = "false") =>
            /\ ~isConnected
            /\ ~r.probeOk /\ r.probes >= 1
            /\ r.opCalls = r.attempt /\ r.opCalls <= r.maxRetries
            /\ r.maxRetries >= 1 => r.opCalls >= 1
            /\ (r.pc = "done" /\ r.result.kind = "throw"
                  /\ r.last.k # "resolve" /\ r.maxRetries >= 1) =>
                 /\ r.result.err =
                      (IF r.last = Pending THEN RequestTimeoutError
                       ELSE r.last.e)
                 /\ isRetryableError(r.result.err) =>
                      r.opCalls = r.maxRetries
            /\ (r.pc = "done" /\ r.fn = "withRetry" /\ r.last.k = "resolve"
                  /\ truthy(r.last.v)) => r.result = Returned(r.last.v))
  /\ [][ \A p \in Main :
          (BeginsWithRetry(p) /\ ~isConnected) =>
            proc'[p].pc = "probe" /\ proc'[p].opCalls = 0 ]_vars

\* after a failed wait the call has used all its attempts, and the flag is
\* still false
C21_Witness ==
  \E p \in Main :
    /\ proc[p].fn = "withRetry" /\ proc[p].pc = "done"
    /\ proc[p].wfc = "false" /\ proc[p].probes >= 2
    /\ proc[p].maxRetries = MaxRetriesArg
    /\ proc[p].opCalls = MaxRetriesArg
    /\ proc[p].result = Thrown(FailedToFetch)
    /\ ~isConnected

-----------------------------------------------------------------------------
(* Claims about the error cell of useModelFiles *)

\* the call of slot o ends in this step
HookCallEnds(o) ==
  /\ hook.ops[o].pc \notin {"idle", "done"}
  /\ hook'.ops[o].pc = "done"

\* the upload of the addFile call of slot o fails in this step
AddFileUploadFails(o) ==
  /\ hook.ops[o].kind = "addFile"
  /\ hook.ops[o].pc = "uploading"
  /\ HookCallEnds(o)
  /\ hook'.ops[o].items[1].st = "uploadFailed"

\* the effect starts a load that reaches listFiles in this step
LoadBegins(o) ==
  /\ hook'.ops[o] # hook.ops[o]
  /\ hook'.ops[o].kind = "load"
  /\ hook'.ops[o].pc = "listing"

\* C22: when the upload of an addFile call fails, files is as before, error
\* holds the failure (the thrown value, or Error('Failed to create file')
\* for a thrown value that is no Error), the call throws that same error
\* and loading is false; an addFile or uploadFiles call that ends without
\* throwing leaves error as it is, and error goes back to null only in a
\* step that starts a load.
C22_FailedAddFileKeepsTreeSetsError ==
  [][ \A o \in HookMain :
        /\ AddFileUploadFails(o) =>
             /\ hook'.files = hook.files
             /\ hook'.error =
                  <<asErrorOr(hook'.ops[o].items[1].err[1], FailedToCreateFile)>>
             /\ hook'.ops[o].result = Thrown(hook'.error[1])
             /\ ~hook'.loading
        /\ (HookCallEnds(o) /\ hook.ops[o].kind \in {"addFile", "uploadFiles"}) =>
             /\ ~hook'.loading
             /\ hook'.ops[o].result.kind = "return" => hook'.error = hook.error
        /\ (hook.error # <<>> /\ hook'.error = <<>>) =>
             \E l \in HookMain : LoadBegins(l) ]_vars

\* the error of a failed addFile is still there after a later addFile call
\* has added its file
C22_Witness ==
  \E o \in HookMain :
    /\ hook.error = <<FailedToCreateFile>>
    /\ hook.ops[o].kind = "addFile"
    /\ hook.ops[o].result = Returned(Undefined)
    /\ hook.files # <<>>
    /\ ~hook.loading

-----------------------------------------------------------------------------
(* Claims about the hook across renders *)

\* the effect of the latest render runs in this step
EffectRuns == hook.effectDue /\ ~hook'.effectDue

\* no call goes to the network in this step
NoCallIssued ==
  \A o \in HookOps :
    hook'.ops[o].pc \notin {"idle", "done"} => hook'.ops[o] = hook.ops[o]

\* a load that went to the network ends in slot o in this step
LoadCompletes(o) == hook.ops[o].kind = "load" /\ HookCallEnds(o)

\* slot o is the one that acts in this step, and it then holds a call of
\* addFile or uploadFiles made with a user that has ended
CallbackEnds(o) ==
  /\ hook'.ops[o].kind \in {"addFile", "uploadFiles"}
  /\ hook'.ops[o].pc = "done"
  /\ hook'.ops[o].result # Thrown(NotAuthenticated)
  /\ \A q \in HookOps \ {o} : hook'.ops[q] = hook.ops[q]
  /\ <<hook'.user, hook'.modelId>> = <<hook.user, hook.modelId>>

\* the effect run without user or modelId sets files to the empty list,
\* leaves loading and error as they are and issues no call
LoadWithoutUserOrModel ==
  (EffectRuns /\ (hook'.user = NoUser \/ hook'.modelId = <<>>)) =>
    /\ hook'.files = <<>>
    /\ hook'.loading = hook.loading
    /\ hook'.error = hook.error
    /\ NoCallIssued

\* C23 as stated: the effect run without user or modelId sets files to the
\* empty list, leaves loading and error unchanged and issues no network
\* call; after a first mount without a user, loading turns false only in a
\* step in which a load with a user and a modelId completes.
C23_LoadingTrueUntilLoadCompletes ==
  [][ /\ LoadWithoutUserOrModel
      /\ (hook.loading /\ ~hook'.loading) =>
           \E o \in HookOps : LoadCompletes(o) ]_vars

\* C23, amended: the effect run without user or modelId sets files to the
\* empty list, leaves loading and error unchanged and issues no network
\* call; after a first mount without a user, loading turns false only in a
\* step in which a call made with a user ends: a load with a user and a
\* modelId, or a call of addFile or uploadFiles.
C23_LoadingTrueUntilCallEnds ==
  [][ /\ LoadWithoutUserOrModel
      /\ (hook.loading /\ ~hook'.loading) =>
           \E o \in HookOps : LoadCompletes(o) \/ CallbackEnds(o) ]_vars

\* the effect of the first render has run without a user, and a later one
\* with a user and no modelId: loading still has its initial value
C23_Witness ==
  /\ hook.user = "u1" /\ hook.modelId = <<>>
  /\ \A o \in HookOps :
       /\ hook.ops[o].kind = "load" /\ hook.ops[o].pc = "done"
       /\ ~hook.ops[o].listed
  /\ hook.files = <<>>
  /\ hook.loading
  /\ hook.error = <<>>

\* the tree of the files a load has listed
TreeOf(r) == buildFileTree([ i \in 1..Len(r.items) |-> recordOf(r.items[i]) ])

\* C24: a load whose listing succeeded writes its tree to files when its
\* downloads have settled, with no test of whether its modelId is still
\* the current one or of what was written to files since it began; so an
\* older load's tree replaces a newer result.
C24_LoadWritesUnguarded ==
  [][ \A o \in HookOps :
        (LoadCompletes(o) /\ hook'.ops[o].listed) =>
          /\ hook'.files = TreeOf(hook'.ops[o])
          /\ hook'.ops[o].writes = 1 ]_vars

\* all calls have settled; the current model is n, files is the tree of the
\* load of model m, and the file that addFile has added since is missing
C24_Witness ==
  /\ hook.user = "u1" /\ hook.modelId = ModelN
  /\ \A o \in HookOps : hook.ops[o].pc = "done"
  /\ hook.ops["o1"].kind = "load"
  /\ hook.ops["o1"].modelId = ModelM
  /\ hook.ops["o1"].listed
  /\ hook.files = TreeOf(hook.ops["o1"])
  /\ [path |-> PathB, content |-> <<"1">>] \in filesOf(hook.files)
  /\ hook.ops["o2"].kind = "addFile"
  /\ hook.ops["o2"].modelId = ModelN
  /\ hook.ops["o2"].result = Returned(Undefined)
  /\ \A f \in filesOf(hook.files) : f.path # hook.ops["o2"].items[1].path
  /\ ~hook.loading /\ hook.error = <<>>

=============================================================================
